---- MODULE Spec2Model ----
(***************************************************************************)
(* A model of sc-extract: the saturating byte reader (src/utils.rs), the   *)
(* TEX decoder with its pixel codec and block de-interleave                *)
(* (src/extractors/tex.rs) and the orientation inference of the SC         *)
(* compositor (src/extractors/sc.rs, region_rotation).                     *)
(*                                                                         *)
(* Each component has its own specification over the shared variables:     *)
(*   SpecReader  - sequences of Reader operations on a buffer               *)
(*   SpecPixel   - one convert_pixel call on a reader                       *)
(*   SpecTex     - process_tex: length check, decompress, block loop        *)
(*   SpecAdjust  - adjust_pixels, one loop step per action                  *)
(*   SpecRegion  - region_rotation on one region                            *)
(*   SpecName    - the sprite file names write_shape saves to               *)
(*   SpecCsv     - process_csv: decompress, write                           *)
(*   SpecGeom    - write_shape: the geometry pass, one region per action    *)
(*   SpecSc      - process_sc: header, tagged-block loop, geometry pass     *)
(*   SpecWorkers - write_shape: parallel region workers, paste and save     *)
(*   SpecBbox    - get_bbox on one mask                                     *)
(*   SpecWord    - convert_pixel of a 16-bit subtype on every word          *)
(***************************************************************************)
EXTENDS Integers, Sequences, FiniteSets, TLC

VARIABLES
    rd,         \* the Reader: [buf, pos, bytes_left]
    last,       \* the most recent Reader / codec operation and what it returned
    eof_seek,   \* whether a failed Cursor::read_exact leaves the cursor at EOF
    tex,        \* process_tex: its position, locals and the files it wrote
    adj,        \* adjust_pixels: loop counters, pixel list and raster
    reg,        \* region_rotation: the region before and after the call
    nm,         \* write_shape: the sprite file names of one SC file
    csv,        \* process_csv: its position, input and what it wrote
    geo,        \* write_shape: the geometry pass over sprite_data
    sc,         \* process_sc: header, sheets, tagged blocks, sprite_data
    ws,         \* write_shape: the parallel region workers and canvases
    bb          \* get_bbox: the mask and the rectangle returned

vars == <<rd, last, eof_seek, tex, adj, reg, nm, csv, geo, sc, ws, bb>>

----------------------------------------------------------------------------
(* Bounds of the model.                                                    *)

MaxBuf == 4         \* longest buffer handed to the Reader in SpecReader
MaxReq == 5         \* largest size requested of read / read_string

(* Byte values the buffers of SpecReader are drawn from (nonzero, so that  *)
(* zero padding is told apart from data).                                  *)
ReaderBytes == {1, 2}

----------------------------------------------------------------------------
(* Helpers.                                                                *)

RECURSIVE SeqsUpTo(_, _)
SeqsUpTo(S, n) ==
    IF n = 0 THEN {<<>>}
    ELSE LET shorter == SeqsUpTo(S, n - 1)
         IN  shorter \cup {Append(s, b) : s \in {t \in shorter : Len(t) = n - 1}, b \in S}

Zeros(n) == [k \in 1..n |-> 0]

Min(a, b) == IF a < b THEN a ELSE b

----------------------------------------------------------------------------
(* std::io::Cursor<Vec<u8>> as used by the Reader.                         *)

NewReader(bytes) == [buf |-> bytes, pos |-> 0, bytes_left |-> Len(bytes)]

CursorRemaining(r) == Len(r.buf) - r.pos

(* read_exact: fills n bytes or fails with UnexpectedEof.  On failure the  *)
(* caller's buffer keeps its zeros; where the cursor is left depends on    *)
(* the standard library the crate is built with (eof_seek).                *)
CursorReadExact(r, n) ==
    IF CursorRemaining(r) >= n
    THEN [rd  |-> [r EXCEPT !.pos = @ + n],
          out |-> SubSeq(r.buf, r.pos + 1, r.pos + n),
          ok  |-> TRUE]
    ELSE [rd  |-> [r EXCEPT !.pos = IF eof_seek THEN Len(r.buf) ELSE @],
          out |-> Zeros(n),
          ok  |-> FALSE]

(* read_to_end: APPENDS every remaining byte to the caller's vector.       *)
CursorReadToEnd(r) ==
    [rd  |-> [r EXCEPT !.pos = Len(r.buf)],
     out |-> SubSeq(r.buf, r.pos + 1, Len(r.buf))]

----------------------------------------------------------------------------
(* Reader (src/utils.rs).                                                  *)

(* A negative result stands for an unsigned underflow of bytes_left.       *)
UncheckedSub(bytes_left, size) == bytes_left - size

(* The saturating decrement every Reader method starts with.               *)
ClampSub(bytes_left, size) ==
    IF size > bytes_left THEN 0 ELSE bytes_left - size

len(r) == r.bytes_left

read(r, size) ==
    LET r1 == [r EXCEPT !.bytes_left = ClampSub(r.bytes_left, size)]
    IN  IF r1.bytes_left = 0
        THEN LET e == CursorReadToEnd(r1)
             IN  [rd |-> e.rd, out |-> Zeros(size) \o e.out]
        ELSE LET e == CursorReadExact(r1, size)
             IN  [rd |-> e.rd, out |-> e.out]

LittleEndian(bytes) ==
    LET RECURSIVE le(_)
        le(k) == IF k > Len(bytes) THEN 0 ELSE bytes[k] + 256 * le(k + 1)
    IN  le(1)

(* Two's complement reading of the little-endian bytes.                    *)
SignedLittleEndian(bytes) ==
    LET n   == Len(bytes)
        top == IF bytes[n] >= 128 THEN bytes[n] - 256 ELSE bytes[n]
    IN  LittleEndian(SubSeq(bytes, 1, n - 1)) + (256 ^ (n - 1)) * top

read_byte(r) ==
    LET r1 == [r EXCEPT !.bytes_left = ClampSub(r.bytes_left, 1)]
        e  == CursorReadExact(r1, 1)
    IN  [rd |-> e.rd, val |-> IF e.ok THEN e.out[1] ELSE 0]

read_uint16(r) ==
    LET r1 == [r EXCEPT !.bytes_left = ClampSub(r.bytes_left, 2)]
        e  == CursorReadExact(r1, 2)
    IN  [rd |-> e.rd, val |-> IF e.ok THEN LittleEndian(e.out) ELSE 0]

read_uint32(r) ==
    LET r1 == [r EXCEPT !.bytes_left = ClampSub(r.bytes_left, 4)]
        e  == CursorReadExact(r1, 4)
    IN  [rd |-> e.rd, val |-> IF e.ok THEN LittleEndian(e.out) ELSE 0]

read_int16(r) ==
    LET r1 == [r EXCEPT !.bytes_left = ClampSub(r.bytes_left, 2)]
        e  == CursorReadExact(r1, 2)
    IN  [rd |-> e.rd, val |-> IF e.ok THEN SignedLittleEndian(e.out) ELSE 0]

read_int32(r) ==
    LET r1 == [r EXCEPT !.bytes_left = ClampSub(r.bytes_left, 4)]
        e  == CursorReadExact(r1, 4)
    IN  [rd |-> e.rd, val |-> IF e.ok THEN SignedLittleEndian(e.out) ELSE 0]

(* read_string decrements bytes_left itself and then calls read, which     *)
(* decrements it again.  `out` is the bytes handed to from_utf8_lossy.     *)
read_string(r, length) ==
    LET r1 == [r EXCEPT !.bytes_left = ClampSub(r.bytes_left, length)]
    IN  read(r1, length)

----------------------------------------------------------------------------
(* SpecReader: any sequence of Reader operations on any buffer.            *)

IdleTex == [pc |-> "idle"]
IdleAdj == [pc |-> "idle"]
IdleReg == [pc |-> "idle"]
IdleNm  == [pc |-> "idle"]
IdleCsv == [pc |-> "idle"]
IdleGeo == [pc |-> "idle"]
IdleSc  == [pc |-> "idle"]
IdleWs  == [pc |-> "idle"]
IdleBb  == [pc |-> "idle"]

NoOp == [op |-> "new", n |-> 0, len_before |-> 0, pos_before |-> 0,
         out |-> <<>>, val |-> 0, ok |-> TRUE]

(* What the operation `name` was asked (n), the reader it was called on    *)
(* and what it returned.                                                   *)
Op(name, n, r, out, val) ==
    [op |-> name, n |-> n, len_before |-> r.bytes_left, pos_before |-> r.pos,
     out |-> out, val |-> val, ok |-> TRUE]

InitReader ==
    /\ \E bytes \in SeqsUpTo(ReaderBytes, MaxBuf) : rd = NewReader(bytes)
    /\ last = NoOp
    /\ nm = IdleNm
    /\ csv = IdleCsv
    /\ geo = IdleGeo
    /\ sc = IdleSc
    /\ ws = IdleWs
    /\ bb = IdleBb
    /\ eof_seek \in BOOLEAN
    /\ tex = IdleTex
    /\ adj = IdleAdj
    /\ reg = IdleReg

DoRead ==
    \E size \in 0..MaxReq :
        LET res == read(rd, size)
        IN  /\ rd' = res.rd
            /\ last' = Op("read", size, rd, res.out, 0)
            /\ UNCHANGED <<eof_seek, tex, adj, reg, nm, csv, geo, sc, ws, bb>>

DoReadString ==
    \E length \in 0..MaxReq :
        LET res == read_string(rd, length)
        IN  /\ rd' = res.rd
            /\ last' = Op("read_string", length, rd, res.out, 0)
            /\ UNCHANGED <<eof_seek, tex, adj, reg, nm, csv, geo, sc, ws, bb>>

Typed(name, n, res) ==
    /\ rd' = res.rd
    /\ last' = Op(name, n, rd, <<>>, res.val)
    /\ UNCHANGED <<eof_seek, tex, adj, reg, nm, csv, geo, sc, ws, bb>>

DoReadByte   == Typed("read_byte", 1, read_byte(rd))
DoReadUint16 == Typed("read_uint16", 2, read_uint16(rd))
DoReadUint32 == Typed("read_uint32", 4, read_uint32(rd))
DoReadInt16  == Typed("read_int16", 2, read_int16(rd))
DoReadInt32  == Typed("read_int32", 4, read_int32(rd))

NextReader ==
    \/ DoRead
    \/ DoReadString
    \/ DoReadByte
    \/ DoReadUint16
    \/ DoReadUint32
    \/ DoReadInt16
    \/ DoReadInt32

SpecReader == InitReader /\ [][NextReader]_vars

(* The bytes the cursor had not yet passed when the last operation began.  *)
UnreadBefore == SubSeq(rd.buf, last.pos_before + 1, Len(rd.buf))

(* C3: Reader.read(n) returns exactly n bytes for every n and every reader *)
(* state: the next n unread bytes when n <= len() (n = len() included),    *)
(* and the unread remainder padded with zeros, or all zeros, otherwise.    *)
C3_ReadReturnsExactlyN ==
    last.op = "read" =>
        /\ Len(last.out) = last.n
        /\ last.n <= last.len_before =>
               last.out = SubSeq(UnreadBefore, 1, last.n)
        /\ last.n > last.len_before =>
               \/ last.out = Zeros(last.n)
               \/ LET rest == SubSeq(UnreadBefore, 1, Min(last.n, Len(UnreadBefore)))
                  IN  last.out = rest \o Zeros(last.n - Len(rest))

(* C4: len() never underflows, and right after any Reader operation that   *)
(* requested more bytes than len(), len() is exactly 0.                    *)
C4_LenSaturates ==
    /\ len(rd) >= 0
    /\ len(rd) <= Len(rd.buf)
    /\ (last.op # "new" /\ last.n > last.len_before) => len(rd) = 0

(* A typed read that asked for more than was left, on a reader that still  *)
(* had bytes, after at least one earlier in-range read.                    *)
C4_Witness ==
    /\ last.op = "read_uint32"
    /\ last.len_before \in 1..3
    /\ last.pos_before > 0
    /\ len(rd) = 0

(* C24: every Reader operation that requests k <= len() bytes reduces      *)
(* len() by exactly k (read, the typed reads and read_string alike), so    *)
(* that len() stays equal to the number of bytes the cursor has not yet    *)
(* consumed.                                                               *)
C24_InRangeReadTakesExactlyK ==
    (last.op # "new" /\ last.n <= last.len_before) =>
        /\ len(rd) = last.len_before - last.n
        /\ last.len_before = Len(rd.buf) - last.pos_before =>
               len(rd) = Len(rd.buf) - rd.pos

----------------------------------------------------------------------------
(* Pixel codec (src/extractors/tex.rs, convert_pixel).                     *)

(* u16 / u8 bit operations of the codec.                                   *)
Shr(p, k)   == p \div (2 ^ k)
Shl16(v, k) == (v * (2 ^ k)) % 65536
BitAnd(p, mask) == p % (mask + 1)      \* mask is 2^m - 1 at every use
AsU8(v)     == v % 256

UnknownPixel == "UnknownPixel"

Alpha5551Opaque(pixel) == IF BitAnd(pixel, 1) = 1 THEN 255 ELSE 0

(* ((pixel & 0xFF) << 7) as u8: the alpha channel of subtype 3.            *)
Alpha5551(pixel) == AsU8(Shl16(BitAnd(pixel, 255), 7))

(* The match of convert_pixel: what is read for each pixel_type and the    *)
(* RGBA quad built from it.  ok = FALSE stands for Err(UnknownPixel).      *)
convert_pixel(r, pixel_type) ==
    CASE pixel_type \in {0, 1} ->
            LET res == read(r, 4)
                pixel == res.out
            IN  [rd |-> res.rd, ok |-> TRUE,
                 out |-> <<pixel[1], pixel[2], pixel[3], pixel[4]>>]
      [] pixel_type = 2 ->
            LET res == read_uint16(r)
                pixel == res.val
            IN  [rd |-> res.rd, ok |-> TRUE,
                 out |-> <<AsU8(Shl16(BitAnd(Shr(pixel, 12), 15), 4)),
                           AsU8(Shl16(BitAnd(Shr(pixel, 8), 15), 4)),
                           AsU8(Shl16(BitAnd(Shr(pixel, 4), 15), 4)),
                           AsU8(Shl16(BitAnd(pixel, 15), 4))>>]
      [] pixel_type = 3 ->
            LET res == read_uint16(r)
                pixel == res.val
            IN  [rd |-> res.rd, ok |-> TRUE,
                 out |-> <<AsU8(Shl16(BitAnd(Shr(pixel, 11), 31), 3)),
                           AsU8(Shl16(BitAnd(Shr(pixel, 6), 31), 3)),
                           AsU8(Shl16(BitAnd(Shr(pixel, 1), 31), 3)),
                           Alpha5551(pixel)>>]
      [] pixel_type = 4 ->
            LET res == read_uint16(r)
                pixel == res.val
            IN  [rd |-> res.rd, ok |-> TRUE,
                 out |-> <<AsU8(Shl16(BitAnd(Shr(pixel, 11), 31), 3)),
                           AsU8(Shl16(BitAnd(Shr(pixel, 5), 63), 2)),
                           AsU8(Shl16(BitAnd(pixel, 31), 3)),
                           255>>]
      [] pixel_type = 6 ->
            LET res == read_uint16(r)
                pixel == res.val
            IN  [rd |-> res.rd, ok |-> TRUE,
                 out |-> <<AsU8(Shr(pixel, 8)), AsU8(Shr(pixel, 8)),
                           AsU8(Shr(pixel, 8)), AsU8(BitAnd(pixel, 255))>>]
      [] pixel_type = 10 ->
            LET res == read_byte(r)
                pixel == res.val
            IN  [rd |-> res.rd, ok |-> TRUE,
                 out |-> <<pixel, pixel, pixel, pixel>>]
      [] OTHER ->
            [rd |-> r, ok |-> FALSE, out |-> UnknownPixel]

----------------------------------------------------------------------------
(* SpecPixel: one convert_pixel call, for every pixel_type a u8 can hold,  *)
(* on readers holding 0..MaxPixBuf bytes.                                  *)

MaxPixBuf == 4

(* Byte values that set and clear every field boundary of the 16-bit       *)
(* layouts (low/high nibble, bit 0, bit 7, all ones).                      *)
PixelBytes == {0, 1, 15, 128, 255}

PixelTypes == 0..255

InitPixel ==
    /\ \E bytes \in SeqsUpTo(PixelBytes, MaxPixBuf) : rd = NewReader(bytes)
    /\ last = NoOp
    /\ nm = IdleNm
    /\ csv = IdleCsv
    /\ geo = IdleGeo
    /\ sc = IdleSc
    /\ ws = IdleWs
    /\ bb = IdleBb
    /\ eof_seek \in BOOLEAN
    /\ tex = IdleTex
    /\ adj = IdleAdj
    /\ reg = IdleReg

DoConvertPixel ==
    /\ last.op = "new"
    /\ \E pixel_type \in PixelTypes :
        LET res == convert_pixel(rd, pixel_type)
        IN  /\ rd' = res.rd
            /\ last' = [Op("convert_pixel", pixel_type, rd, res.out, 0)
                            EXCEPT !.ok = res.ok]
            /\ UNCHANGED <<eof_seek, tex, adj, reg, nm, csv, geo, sc, ws, bb>>

NextPixel == DoConvertPixel

SpecPixel == InitPixel /\ [][NextPixel]_vars

(* SpecWord: one convert_pixel call of a 16-bit subtype on a reader that   *)
(* holds one little-endian word, for every word.                           *)

WordBytes == 0..255

WordTypes == {2, 3, 4, 6}

InitWord ==
    /\ \E b0 \in WordBytes, b1 \in WordBytes : rd = NewReader(<<b0, b1>>)
    /\ last = NoOp
    /\ eof_seek = FALSE
    /\ tex = IdleTex
    /\ adj = IdleAdj
    /\ reg = IdleReg
    /\ nm = IdleNm
    /\ csv = IdleCsv
    /\ geo = IdleGeo
    /\ sc = IdleSc
    /\ ws = IdleWs
    /\ bb = IdleBb

DoConvertWord ==
    /\ last.op = "new"
    /\ \E pixel_type \in WordTypes :
          /\ rd' = convert_pixel(rd, pixel_type).rd
          /\ last' = [Op("convert_pixel", pixel_type, rd,
                         convert_pixel(rd, pixel_type).out, 0)
                         EXCEPT !.ok = convert_pixel(rd, pixel_type).ok]
    /\ UNCHANGED <<eof_seek, tex, adj, reg, nm, csv, geo, sc, ws, bb>>

NextWord == DoConvertWord

SpecWord == InitWord /\ [][NextWord]_vars

(* The word the reader held, little-endian.                                *)
WordOf(buf) == buf[1] + 256 * buf[2]

(* C26: for subtype 3 and every 16-bit value p the alpha channel is        *)
(* ((p & 0xFF) << 7) truncated to 8 bits, which is (p & 1) << 7: 128 when  *)
(* bit 0 of p is set and 0 otherwise, never 255.                           *)
C26_Alpha5551 ==
    (last.op = "convert_pixel" /\ last.n = 3) =>
        /\ last.ok
        /\ last.out[4] = (((WordOf(rd.buf) % 256) * 128) % 256)
        /\ last.out[4] = (IF WordOf(rd.buf) % 2 = 1 THEN 128 ELSE 0)
        /\ last.out[4] # 255

(* Subtype 3 on the word 0xFFFF: every bit of the low byte set, alpha 128. *)
C26_Witness ==
    /\ last.op = "convert_pixel"
    /\ last.n = 3
    /\ rd.buf = <<255, 255>>
    /\ last.out[4] = 128

(* The codec table of the claim: bytes consumed per subtype, and the quad  *)
(* as a function of the bytes b (8-bit channels).                          *)
TableBytes(s) ==
    CASE s \in {0, 1} -> 4
      [] s \in {2, 3, 4, 6} -> 2
      [] s = 10 -> 1
      [] OTHER -> 0

TableQuad(s, b) ==
    LET p == IF Len(b) >= 2 THEN b[1] + 256 * b[2] ELSE 0
    IN  CASE s \in {0, 1} -> <<b[1], b[2], b[3], b[4]>>
          [] s = 2 -> <<((p \div 4096) % 16) * 16, ((p \div 256) % 16) * 16,
                        ((p \div 16) % 16) * 16, (p % 16) * 16>>
          [] s = 3 -> <<((p \div 2048) % 32) * 8, ((p \div 64) % 32) * 8,
                        ((p \div 2) % 32) * 8, ((p % 256) * 128) % 256>>
          [] s = 4 -> <<((p \div 2048) % 32) * 8, ((p \div 32) % 64) * 4,
                        (p % 32) * 8, 255>>
          [] s = 6 -> <<p \div 256, p \div 256, p \div 256, p % 256>>
          [] OTHER -> <<b[1], b[1], b[1], b[1]>>

KnownSubTypes == {0, 1, 2, 3, 4, 6, 10}

(* C1: convert_pixel is total and matches the codec table for every        *)
(* subtype and reader content: a known subtype consumes its bytes and      *)
(* returns the table's quad of them; any other subtype returns             *)
(* UnknownPixel and consumes nothing.                                      *)
C1_CodecMatchesTable ==
    last.op = "convert_pixel" =>
        LET s == last.n
            k == TableBytes(s)
        IN  IF s \in KnownSubTypes
            THEN /\ last.ok
                 /\ len(rd) = IF k > last.len_before THEN 0 ELSE last.len_before - k
                 /\ Len(UnreadBefore) >= k =>
                        /\ rd.pos = last.pos_before + k
                        /\ last.out = TableQuad(s, SubSeq(UnreadBefore, 1, k))
            ELSE /\ ~last.ok
                 /\ last.out = UnknownPixel
                 /\ len(rd) = last.len_before
                 /\ rd.pos = last.pos_before

----------------------------------------------------------------------------
(* Block de-interleave (src/extractors/tex.rs, adjust_pixels).             *)

block_size == 32

(* (n as f64 / block_size as f64).ceil() as u32                            *)
CeilBlocks(n) == (n + block_size - 1) \div block_size

FloorBlocks(n) == n \div block_size

h_limit(height) == CeilBlocks(height)
w_limit(width)  == CeilBlocks(width)

(* The raster is indexed by y * width + x; put_pixel panics outside it.    *)
Flat(x, y, width) == y * width + x

(* adjust_pixels on entry: i = 0 and the outer for about to start.         *)
AdjustEntry(img, pixels, height, width) ==
    [pc |-> "for_h", width |-> width, height |-> height, pixels |-> pixels,
     img |-> img, i |-> 0, _h |-> 0, _w |-> 0, h |-> 0, w |-> 0,
     writes |-> [c \in DOMAIN img |-> 0], lastxy |-> <<>>, prevxy |-> <<>>]

(* One step of the four nested loops.  `writes`, `lastxy` and `prevxy`     *)
(* record the put_pixel calls made (how often per cell, and the last two   *)
(* targets); the code does not read them.                                  *)
AdjustStep(a) ==
    CASE a.pc = "for_h" ->
            IF a._h < h_limit(a.height)
            THEN [a EXCEPT !.pc = "for_w", !._w = 0]
            ELSE [a EXCEPT !.pc = "done"]
      [] a.pc = "for_w" ->
            IF a._w < w_limit(a.width)
            THEN [a EXCEPT !.pc = "while_h", !.h = a._h * block_size]
            ELSE [a EXCEPT !.pc = "for_h", !._h = @ + 1]
      [] a.pc = "while_h" ->
            IF a.h # (a._h + 1) * block_size /\ a.h < a.height
            THEN [a EXCEPT !.pc = "while_w", !.w = a._w * block_size]
            ELSE [a EXCEPT !.pc = "for_w", !._w = @ + 1]
      [] a.pc = "while_w" ->
            IF a.w # (a._w + 1) * block_size /\ a.w < a.width
            THEN IF a.i >= Len(a.pixels) \/ a.w >= a.width \/ a.h >= a.height
                 THEN [a EXCEPT !.pc = "panic"]
                 ELSE [a EXCEPT !.img[Flat(a.w, a.h, a.width)] = a.pixels[a.i + 1],
                                !.writes[Flat(a.w, a.h, a.width)] = @ + 1,
                                !.prevxy = a.lastxy,
                                !.lastxy = <<a.w, a.h>>,
                                !.i = @ + 1,
                                !.w = @ + 1]
            ELSE [a EXCEPT !.pc = "while_h", !.h = @ + 1]
      [] OTHER -> a

RECURSIVE AdjustRun(_)
AdjustRun(a) == IF a.pc \in {"done", "panic"} THEN a ELSE AdjustRun(AdjustStep(a))

(* The whole call: the raster it leaves, and whether it panicked.          *)
adjust_pixels(img, pixels, height, width) ==
    LET a == AdjustRun(AdjustEntry(img, pixels, height, width))
    IN  [panic |-> a.pc = "panic", img |-> a.img]

----------------------------------------------------------------------------
(* SpecAdjust: adjust_pixels step by step, as process_tex calls it for     *)
(* file_type 27 / 28: the pixel list holds width * height pixels and the   *)
(* raster was filled in row-major order.  Pixel k of the stream is the     *)
(* value k.                                                                *)

MaxAdjDim == 33

(* Widths and heights: empty, tiny, around one block, and two blocks plus  *)
(* one column or row.                                                      *)
AdjDims == {0, 1, 2, 2 * block_size + 1} \cup (block_size - 1)..MaxAdjDim

InitAdjust ==
    /\ \E width \in AdjDims, height \in AdjDims :
         LET pixels == [k \in 1..(width * height) |-> k - 1]
             img    == [c \in 0..(width * height - 1) |-> pixels[c + 1]]
         IN  adj = AdjustEntry(img, pixels, height, width)
    /\ rd = NewReader(<<>>)
    /\ last = NoOp
    /\ nm = IdleNm
    /\ csv = IdleCsv
    /\ geo = IdleGeo
    /\ sc = IdleSc
    /\ ws = IdleWs
    /\ bb = IdleBb
    /\ eof_seek = FALSE
    /\ tex = IdleTex
    /\ reg = IdleReg

DoAdjustStep ==
    /\ adj.pc \notin {"done", "panic"}
    /\ adj' = AdjustStep(adj)
    /\ UNCHANGED <<rd, last, eof_seek, tex, reg, nm, csv, geo, sc, ws, bb>>

NextAdjust == DoAdjustStep

SpecAdjust == InitAdjust /\ [][NextAdjust]_vars

(* The traversal the claim describes: coordinates ordered by block row,    *)
(* then block column, then row inside the block, then x.                   *)
BlockKey(c) == <<c[2] \div block_size, c[1] \div block_size, c[2], c[1]>>

KeyBefore(c, d) ==
    LET k == BlockKey(c)
        l == BlockKey(d)
    IN  \E n \in 1..4 : k[n] < l[n] /\ \A m \in 1..(n - 1) : k[m] = l[m]

(* C8: adjust_pixels never indexes past the pixel list or the raster;      *)
(* successive stream pixels go to strictly later coordinates of the        *)
(* block traversal, pixel i being written by the i-th put_pixel; no        *)
(* coordinate is written twice, and on return exactly width * height       *)
(* pixels were consumed and every coordinate was written once.             *)
C8_BlockTraversal ==
    adj.pc # "idle" =>
        /\ adj.pc # "panic"
        /\ adj.i <= adj.width * adj.height
        /\ adj.lastxy # <<>> =>
              /\ adj.lastxy[1] < adj.width /\ adj.lastxy[2] < adj.height
              /\ adj.writes[Flat(adj.lastxy[1], adj.lastxy[2], adj.width)] = 1
              /\ adj.img[Flat(adj.lastxy[1], adj.lastxy[2], adj.width)] = adj.i - 1
        /\ adj.prevxy # <<>> => KeyBefore(adj.prevxy, adj.lastxy)
        /\ adj.pc = "done" =>
              /\ adj.i = adj.width * adj.height
              /\ \A c \in DOMAIN adj.writes : adj.writes[c] = 1

(* A finished call on an image with truncated blocks on the right and at   *)
(* the bottom: the last pixel of the first block row's second block sits   *)
(* at (32, 31) and the last pixel of the stream at the bottom-right.       *)
C8_Witness ==
    /\ adj.pc = "done"
    /\ adj.width = block_size + 1
    /\ adj.height = block_size + 1
    /\ adj.img[Flat(block_size, block_size - 1, adj.width)] = block_size * (block_size + 1) - 1
    /\ adj.img[Flat(0, 1, adj.width)] = block_size
    /\ adj.lastxy = <<block_size, block_size>>

----------------------------------------------------------------------------
(* TEX decoder (src/extractors/tex.rs, process_tex) and decompress         *)
(* (src/utils.rs).                                                         *)

MinTexLen   == 35       \* data.len() < 35 is rejected
TexSkip     == 26       \* &data[26..]
LzmaHeadLen == 9        \* &raw_data[0..9], &raw_data[9..]

possible_types == {1, 24, 27, 28}

TooSmallBelow34(data_len) == data_len < MinTexLen - 1

(* The guard at the top of process_tex.                                    *)
TooSmall(data_len) == data_len < MinTexLen

(* decompress(raw_data) for a slice of slice_len bytes.  Slicing           *)
(* raw_data[0..9] panics on a shorter slice; otherwise the LZMA library    *)
(* decides: lzma.valid tells whether it accepts the input, lzma.stream is  *)
(* what the input decompresses to.                                         *)
decompress(slice_len, lzma) ==
    IF slice_len < LzmaHeadLen THEN [res |-> "panic", cursor |-> <<>>]
    ELSE IF ~lzma.valid THEN [res |-> "DecompressionError", cursor |-> <<>>]
    ELSE [res |-> "Ok", cursor |-> lzma.stream]

(* The y / x loops over convert_pixel: the pixels pushed so far, the       *)
(* reader, and whether a codec error ended the sub-image.                  *)
RECURSIVE DecodePixels(_, _, _, _)
DecodePixels(r, sub_type, todo, pixels) ==
    IF todo = 0 THEN [rd |-> r, ok |-> TRUE, pixels |-> pixels]
    ELSE LET c == convert_pixel(r, sub_type)
         IN  IF ~c.ok THEN [rd |-> c.rd, ok |-> FALSE, pixels |-> pixels]
             ELSE DecodePixels(c.rd, sub_type, todo - 1, Append(pixels, c.out))

(* One iteration of the 'main loop, up to the point where the image is     *)
(* saved, read by read: each operator takes what was read so far and the   *)
(* result of the next read.  kind: "skipped" (not an image block),         *)
(* "abandoned" (continue 'main on a codec error), "image" (a raster ready  *)
(* to save) or "panic".                                                    *)
TexDecoded(file_type, sub_type, width, height, data_pos, dec, adjusted) ==
    [kind |-> IF ~dec.ok THEN "abandoned"
              ELSE IF adjusted.panic THEN "panic" ELSE "image",
     img |-> IF dec.ok /\ ~adjusted.panic THEN adjusted.img ELSE <<>>,
     rd |-> dec.rd, file_type |-> file_type, sub_type |-> sub_type,
     width |-> width, height |-> height, data_pos |-> data_pos]

(* put_pixel(x, y, pixel) in the y / x loops fills the raster row by row;  *)
(* file types 27 and 28 are then de-interleaved.                           *)
TexRaster(file_type, sub_type, width, height, data_pos, dec) ==
    TexDecoded(file_type, sub_type, width, height, data_pos, dec,
        IF ~dec.ok THEN [panic |-> FALSE, img |-> <<>>]
        ELSE IF file_type = 27 \/ file_type = 28
        THEN adjust_pixels([c \in 0..(width * height - 1) |-> dec.pixels[c + 1]],
                           dec.pixels, height, width)
        ELSE [panic |-> FALSE,
              img |-> [c \in 0..(width * height - 1) |-> dec.pixels[c + 1]]])

TexAfterHeight(file_type, sub_type, width, hg) ==
    TexRaster(file_type, sub_type, width, hg.val, hg.rd.pos,
              DecodePixels(hg.rd, sub_type, width * hg.val, <<>>))

TexAfterWidth(file_type, sub_type, wd) ==
    TexAfterHeight(file_type, sub_type, wd.val, read_uint16(wd.rd))

TexAfterSubType(file_type, st) ==
    TexAfterWidth(file_type, st.val, read_uint16(st.rd))

TexAfterSize(file_type, fs) ==
    IF file_type \notin possible_types
    THEN [kind |-> "skipped", img |-> <<>>, rd |-> read(fs.rd, fs.val).rd,
          file_type |-> file_type, sub_type |-> 0, width |-> 0, height |-> 0,
          data_pos |-> fs.rd.pos]
    ELSE TexAfterSubType(file_type, read_byte(fs.rd))

TexAfterType(ft) == TexAfterSize(ft.val, read_uint32(ft.rd))

TexBlock(r) == TexAfterType(read_byte(r))

----------------------------------------------------------------------------
(* SpecTex: process_tex on inputs of 0..MaxTexLen bytes.  Inputs of        *)
(* MaxTexLen bytes decompress to a stream of up to MaxTexBlocks blocks     *)
(* with up to MaxCut bytes missing at the end, or are invalid; shorter     *)
(* inputs are invalid LZMA.                                                *)

MaxTexLen    == 40
MaxTexBlocks == 3
MaxCut       == 2

LE16(v) == <<v % 256, v \div 256>>
LE32(v) == <<v % 256, (v \div 256) % 256, 0, 0>>

TexImageTypes == {1, 27}
TexSubTypes   == {0, 5}
TexDims       == {<<0, 0>>, <<2, 1>>, <<2, 2>>}

BytesPerPixel(sub_type) ==
    CASE sub_type \in {0, 1} -> 4
      [] sub_type \in {2, 3, 4, 6} -> 2
      [] sub_type = 10 -> 1
      [] OTHER -> 0

(* An image block: header, then width * height pixel records holding the   *)
(* bytes 1, 2, 3, ...                                                      *)
ImageBlock(file_type, sub_type, wh) ==
    LET n == wh[1] * wh[2] * BytesPerPixel(sub_type)
    IN  <<file_type>> \o LE32(5 + n) \o <<sub_type>> \o LE16(wh[1]) \o LE16(wh[2])
        \o [k \in 1..n |-> k]

(* A block of a type process_tex skips: a 2-byte payload.                  *)
OtherBlock == <<9>> \o LE32(2) \o <<200, 201>>

TexBlocks ==
    {ImageBlock(t, s, wh) : t \in TexImageTypes, s \in TexSubTypes, wh \in TexDims}
    \cup {OtherBlock}

RECURSIVE TexStreams(_)
TexStreams(n) ==
    IF n = 0 THEN {<<>>}
    ELSE LET shorter == TexStreams(n - 1)
         IN  shorter \cup {s \o b : s \in shorter, b \in TexBlocks}

InvalidLzma == [valid |-> FALSE, stream |-> <<>>]

TexPayloads ==
    {[valid |-> TRUE, stream |-> SubSeq(s, 1, Len(s) - cut)] :
        s \in TexStreams(MaxTexBlocks), cut \in 0..MaxCut}

InitTex ==
    /\ \E data_len \in 0..MaxTexLen :
       \E lzma \in (IF data_len = MaxTexLen THEN TexPayloads \cup {InvalidLzma}
                    ELSE {InvalidLzma}) :
            tex = [pc |-> "start", data_len |-> data_len, lzma |-> lzma,
                   result |-> "running", decompress_arg |-> -1,
                   pic_count |-> 0, files |-> <<>>, log |-> <<>>]
    /\ rd = NewReader(<<>>)
    /\ last = NoOp
    /\ nm = IdleNm
    /\ csv = IdleCsv
    /\ geo = IdleGeo
    /\ sc = IdleSc
    /\ ws = IdleWs
    /\ bb = IdleBb
    /\ eof_seek \in BOOLEAN
    /\ adj = IdleAdj
    /\ reg = IdleReg

(* The length check with its early return.                                 *)
TexReject ==
    /\ tex.pc = "start"
    /\ TooSmall(tex.data_len)
    /\ tex' = [tex EXCEPT !.pc = "done", !.result = "DecompressionError"]
    /\ UNCHANGED <<rd, last, eof_seek, adj, reg, nm, csv, geo, sc, ws, bb>>

(* decompress(&data[26..])? and Reader::new.                               *)
TexDecompress ==
    /\ tex.pc = "start"
    /\ ~TooSmall(tex.data_len)
    /\ LET slice_len == IF tex.data_len >= TexSkip THEN tex.data_len - TexSkip ELSE -1
           d == IF slice_len < 0 THEN [res |-> "panic", cursor |-> <<>>]
                ELSE decompress(slice_len, tex.lzma)
       IN  IF d.res = "Ok"
           THEN /\ rd' = NewReader(d.cursor)
                /\ tex' = [tex EXCEPT !.pc = "loop", !.decompress_arg = slice_len]
           ELSE /\ rd' = rd
                /\ tex' = [tex EXCEPT !.pc = "done", !.result = d.res,
                                      !.decompress_arg = slice_len]
    /\ UNCHANGED <<last, eof_seek, adj, reg, nm, csv, geo, sc, ws, bb>>

(* pic_count += 1 closes the loop body: it is reached only when the image  *)
(* was saved, not after `continue` or `continue 'main`.                    *)
PicCountEveryBlock(kind, pic_count) == pic_count + 1

PicCountAfter(kind, pic_count) ==
    IF kind = "saved" THEN pic_count + 1 ELSE pic_count

LogEntry(b, kind, count_after) ==
    [kind |-> kind, file_type |-> b.file_type, sub_type |-> b.sub_type,
     width |-> b.width, height |-> b.height,
     start_pos |-> rd.pos, data_pos |-> b.data_pos, end_pos |-> b.rd.pos,
     count_before |-> tex.pic_count, count_after |-> count_after]

(* The rest of an iteration whose block came out as b: the block is        *)
(* skipped or abandoned, or saved under the name with pic_count            *)
(* underscores; img.save may fail.                                         *)
TexFinish(b) ==
    /\ rd' = b.rd
    /\ CASE b.kind \in {"skipped", "abandoned"} ->
              tex' = [tex EXCEPT
                        !.pic_count = PicCountAfter(b.kind, @),
                        !.log = Append(@, LogEntry(b, b.kind,
                                    PicCountAfter(b.kind, tex.pic_count)))]
         [] b.kind = "panic" ->
              tex' = [tex EXCEPT
                        !.pc = "done", !.result = "panic",
                        !.log = Append(@, LogEntry(b, "panic", tex.pic_count))]
         [] OTHER ->
              \E save_ok \in BOOLEAN :
                IF save_ok
                THEN tex' = [tex EXCEPT
                        !.files = Append(@,
                            [underscores |-> tex.pic_count,
                             width |-> b.width, height |-> b.height,
                             img |-> b.img, block |-> Len(tex.log) + 1]),
                        !.pic_count = PicCountAfter("saved", @),
                        !.log = Append(@, LogEntry(b, "saved",
                                    PicCountAfter("saved", tex.pic_count)))]
                ELSE tex' = [tex EXCEPT
                        !.pc = "done", !.result = "IoError",
                        !.log = Append(@, LogEntry(b, "save_failed", tex.pic_count))]

(* One iteration of 'main.                                                 *)
TexIterate ==
    /\ tex.pc = "loop"
    /\ len(rd) > 0
    /\ TexFinish(TexBlock(rd))
    /\ UNCHANGED <<last, eof_seek, adj, reg, nm, csv, geo, sc, ws, bb>>

(* The loop condition fails: Ok(()).                                       *)
TexReturn ==
    /\ tex.pc = "loop"
    /\ len(rd) = 0
    /\ tex' = [tex EXCEPT !.pc = "done", !.result = "Ok"]
    /\ UNCHANGED <<rd, last, eof_seek, adj, reg, nm, csv, geo, sc, ws, bb>>

NextTex == TexReject \/ TexDecompress \/ TexIterate \/ TexReturn

SpecTex == InitTex /\ [][NextTex]_vars

(* The pixel the codec table assigns to record k (from 0) of the block     *)
(* logged as e, read from the decompressed stream.                         *)
RecordPixel(e, k) ==
    LET n == BytesPerPixel(e.sub_type)
    IN  TableQuad(e.sub_type,
                  SubSeq(rd.buf, e.data_pos + k * n + 1, e.data_pos + (k + 1) * n))

(* C2: for a sub-image block of file_type 1 or 24 with a recognized        *)
(* subtype whose pixel records all lie inside the decompressed stream      *)
(* (ending exactly at its end included), the raster written holds at       *)
(* (x, y) the pixel decoded from record y * W + x.                         *)
C2_RasterMatchesRecords ==
    \A f \in 1..Len(tex.files) :
        LET file == tex.files[f]
            e == tex.log[file.block]
        IN  ( /\ e.file_type \in {1, 24}
              /\ e.sub_type \in KnownSubTypes
              /\ e.data_pos = e.start_pos + 10
              /\ e.data_pos + e.width * e.height * BytesPerPixel(e.sub_type)
                    <= Len(rd.buf) )
            => \A x \in 0..(e.width - 1), y \in 0..(e.height - 1) :
                   file.img[Flat(x, y, e.width)] = RecordPixel(e, Flat(x, y, e.width))

(* C5: an input shorter than 35 bytes ends in DecompressionError before    *)
(* decompress is called and with no PNG written; whenever decompress is    *)
(* called its slice holds at least 9 bytes, so its header fix-up does not  *)
(* index out of range.                                                     *)
C5_ShortInputRejected ==
    /\ (tex.pc \notin {"idle", "start"} /\ tex.data_len < 35) =>
          /\ tex.pc = "done"
          /\ tex.result = "DecompressionError"
          /\ tex.decompress_arg = -1
          /\ tex.files = <<>>
    /\ (tex.pc \notin {"idle", "start"} /\ tex.data_len >= 35) =>
          /\ tex.decompress_arg >= 9
          /\ tex.result # "panic"

(* A 34-byte input, rejected.                                              *)
C5_Witness ==
    /\ tex.pc = "done"
    /\ tex.data_len = 34
    /\ tex.result = "DecompressionError"
    /\ tex.decompress_arg = -1

(* C6: every image block (its 10-byte header complete) whose sub_type is   *)
(* not a known one is abandoned: nothing is saved for it, pic_count is     *)
(* not advanced, the loop goes on with the bytes after the block header,   *)
(* and process_tex does not fail because of it.                            *)
C6_UnknownSubTypeAbandoned ==
    \A b \in 1..Len(tex.log) :
        LET e == tex.log[b]
        IN  ( /\ e.file_type \in possible_types
              /\ e.sub_type \notin KnownSubTypes
              /\ e.data_pos = e.start_pos + 10 ) =>
                /\ e.kind = "abandoned"
                /\ e.count_after = e.count_before
                /\ e.end_pos = e.data_pos
                /\ \A f \in 1..Len(tex.files) : tex.files[f].block # b

(* C7: the k-th image saved (from 0) is named with exactly k underscores,  *)
(* pic_count counting the images saved so far and nothing else.            *)
C7_UnderscoreSeries ==
    tex.pc # "idle" =>
        /\ tex.pic_count = Len(tex.files)
        /\ \A k \in 1..Len(tex.files) : tex.files[k].underscores = k - 1

(* An abandoned sub-image followed by two saved ones, named with 0 and 1   *)
(* underscores.                                                            *)
C7_Witness ==
    /\ tex.pc # "idle"
    /\ Len(tex.log) = 3
    /\ tex.log[1].kind = "abandoned"
    /\ tex.log[2].kind = "saved"
    /\ tex.log[3].kind = "saved"
    /\ Len(tex.files) = 2
    /\ tex.files[2].underscores = 1

----------------------------------------------------------------------------
(* Orientation inference (src/extractors/sc.rs, region_rotation).          *)

Point(x, y) == [x |-> x, y |-> y]

(* The loop over z: the doubled shoelace sum of a point list (i32 terms    *)
(* widened to i64; the coordinates of the model are far from overflow).    *)
RECURSIVE ShoelaceFrom(_, _, _)
ShoelaceFrom(points, num_points, z) ==
    IF z >= num_points THEN 0
    ELSE (points[((z + 1) % num_points) + 1].x - points[z + 1].x)
         * (points[((z + 1) % num_points) + 1].y + points[z + 1].y)
         + ShoelaceFrom(points, num_points, z + 1)

OrientationZeroNegative(sum) == IF sum <= 0 THEN -1 ELSE 1

(* if sum < 0 { -1 } else { 1 }                                            *)
Orientation(sum) == IF sum < 0 THEN -1 ELSE 1

(* a.cmp(&b) mapped to the Rotation enum.                                  *)
Cmp(a, b) == IF a > b THEN "More" ELSE IF a < b THEN "Less" ELSE "Same"

(* py is inverted: Greater -> Less, Less -> More.                          *)
CmpInverted(a, b) == IF a > b THEN "Less" ELSE IF a < b THEN "More" ELSE "Same"

SelectRotationSwapped(px, py, qx, qy) ==
    IF px = qx /\ py = qy THEN 0
    ELSE IF px = "Same" THEN (IF px = qy THEN (IF py = qx THEN 270 ELSE 90) ELSE 180)
    ELSE IF py = "Same" THEN (IF py = qx THEN (IF px = qy THEN 270 ELSE 90) ELSE 180)
    ELSE IF px # qx /\ py # qy THEN 180
    ELSE IF px = py THEN (IF px # qx THEN 270 ELSE IF py # qy THEN 90 ELSE 0)
    ELSE IF px # py THEN (IF px # qx THEN 90 ELSE IF py # qy THEN 270 ELSE 0)
    ELSE 0

(* The if / else-if chain that picks the rotation.                         *)
SelectRotation(px, py, qx, qy) ==
    IF px = qx /\ py = qy THEN 0
    ELSE IF px = "Same" THEN (IF px = qy THEN (IF py = qx THEN 90 ELSE 270) ELSE 180)
    ELSE IF py = "Same" THEN (IF py = qx THEN (IF px = qy THEN 270 ELSE 90) ELSE 180)
    ELSE IF px # qx /\ py # qy THEN 180
    ELSE IF px = py THEN (IF px # qx THEN 270 ELSE IF py # qy THEN 90 ELSE 0)
    ELSE IF px # py THEN (IF px # qx THEN 90 ELSE IF py # qy THEN 270 ELSE 0)
    ELSE 0

(* The closing adjustment for clockwise sheets.                            *)
FinalRotation(sheet_orientation, rotation) ==
    IF sheet_orientation = -1 /\ (rotation = 90 \/ rotation = 270)
    THEN (rotation + 180) % 360
    ELSE rotation

(* shape_points[x].x *= -1 for every point when mirroring == 1.            *)
MirrorShape(shape_points, mirroring) ==
    IF mirroring = 1
    THEN [k \in DOMAIN shape_points |-> Point(-shape_points[k].x, shape_points[k].y)]
    ELSE shape_points

(* The second half of region_rotation, on the mirrored shape points.       *)
RegionRotated(region, sheet_orientation, mirroring, shape_points) ==
    [region EXCEPT
        !.panic = FALSE,
        !.mirroring = mirroring,
        !.shape_points = shape_points,
        !.rotation = FinalRotation(sheet_orientation,
            SelectRotation(Cmp(region.sheet_points[2].x, region.sheet_points[1].x),
                           CmpInverted(region.sheet_points[2].y, region.sheet_points[1].y),
                           Cmp(shape_points[2].x, shape_points[1].x),
                           Cmp(shape_points[2].y, shape_points[1].y)))]

RegionMirrored(region, sheet_orientation, mirroring) ==
    IF Len(region.sheet_points) < 2 \/ Len(region.shape_points) < 2
    THEN [region EXCEPT !.panic = TRUE, !.mirroring = mirroring,
                        !.shape_points = MirrorShape(region.shape_points, mirroring)]
    ELSE RegionRotated(region, sheet_orientation, mirroring,
                       MirrorShape(region.shape_points, mirroring))

RegionOriented(region, sheet_orientation, shape_orientation) ==
    RegionMirrored(region, sheet_orientation,
                   IF shape_orientation = sheet_orientation THEN 0 ELSE 1)

(* region_rotation(&mut region): the region as the call leaves it; panic   *)
(* marks the out-of-range index sheet_points[1] of a region with fewer     *)
(* than two points.                                                        *)
region_rotation(region) ==
    RegionOriented(region,
        Orientation(ShoelaceFrom(region.sheet_points, region.num_points, 0)),
        Orientation(ShoelaceFrom(region.shape_points, region.num_points, 0)))

----------------------------------------------------------------------------
(* SpecRegion: region_rotation on regions of 0..MaxPoints points with      *)
(* coordinates drawn from RegionCoords, and on the regions of the two      *)
(* seed scenarios.                                                         *)

MaxPoints == 4

RegionCoords == {0, 1}

NewRegion(shape_points, sheet_points) ==
    [num_points |-> Len(shape_points), shape_points |-> shape_points,
     sheet_points |-> sheet_points, mirroring |-> 0, rotation |-> 0,
     panic |-> FALSE]

PointLists(n) ==
    {pts \in SeqsUpTo({Point(x, y) : x \in RegionCoords, y \in RegionCoords}, n) :
        Len(pts) = n}

SeedShape  == <<Point(0, 0), Point(10, 0), Point(10, 10), Point(0, 10)>>
SeedSheet4 == <<Point(0, 0), Point(20, 0), Point(20, 20), Point(0, 20)>>
SeedSheet5 == <<Point(0, 0), Point(0, 20), Point(20, 20), Point(20, 0)>>

InitRegion ==
    /\ \/ \E n \in 0..MaxPoints :
          \E shape \in PointLists(n), sheet \in PointLists(n) :
             reg = [pc |-> "call", before |-> NewRegion(shape, sheet),
                    region |-> NewRegion(shape, sheet)]
       \/ \E sheet \in {SeedSheet4, SeedSheet5} :
             reg = [pc |-> "call", before |-> NewRegion(SeedShape, sheet),
                    region |-> NewRegion(SeedShape, sheet)]
    /\ rd = NewReader(<<>>)
    /\ last = NoOp
    /\ nm = IdleNm
    /\ csv = IdleCsv
    /\ geo = IdleGeo
    /\ sc = IdleSc
    /\ ws = IdleWs
    /\ bb = IdleBb
    /\ eof_seek = FALSE
    /\ tex = IdleTex
    /\ adj = IdleAdj

DoRegionRotation ==
    /\ reg.pc = "call"
    /\ reg' = [reg EXCEPT !.pc = "done", !.region = region_rotation(reg.region)]
    /\ UNCHANGED <<rd, last, eof_seek, tex, adj, nm, csv, geo, sc, ws, bb>>

NextRegion == DoRegionRotation

SpecRegion == InitRegion /\ [][NextRegion]_vars

(* The doubled signed area of the spec: the sum over all edges (i, i+1)    *)
(* of (x[i+1] - x[i]) * (y[i+1] + y[i]), the last edge closing the         *)
(* polygon; its sign with 0 counted as +1.                                 *)
EdgeTerm(p, q) == (q.x - p.x) * (q.y + p.y)

RECURSIVE OpenPathSum(_, _)
OpenPathSum(pts, k) ==
    IF k <= 1 THEN 0 ELSE OpenPathSum(pts, k - 1) + EdgeTerm(pts[k - 1], pts[k])

SignedArea2(pts) ==
    IF Len(pts) = 0 THEN 0
    ELSE OpenPathSum(pts, Len(pts)) + EdgeTerm(pts[Len(pts)], pts[1])

SignOf(v) == IF v >= 0 THEN 1 ELSE -1

(* C9: for every region with at least 2 points region_rotation sets        *)
(* mirroring to 0 when the shoelace sums over sheet_points and             *)
(* shape_points have equal signs (0 counting as +1) and to 1 otherwise;    *)
(* seed scenario 4 gives rotation 0 and mirroring 0, seed scenario 5       *)
(* mirroring 1.                                                            *)
C9_MirroringFromWinding ==
    (reg.pc = "done" /\ reg.before.num_points >= 2) =>
        /\ ~reg.region.panic
        /\ reg.region.mirroring =
              IF SignOf(SignedArea2(reg.before.sheet_points))
                    = SignOf(SignedArea2(reg.before.shape_points))
              THEN 0 ELSE 1
        /\ (reg.before.shape_points = SeedShape /\ reg.before.sheet_points = SeedSheet4)
              => (reg.region.rotation = 0 /\ reg.region.mirroring = 0)
        /\ (reg.before.shape_points = SeedShape /\ reg.before.sheet_points = SeedSheet5)
              => reg.region.mirroring = 1

(* Seed scenario 5 after the call: opposite windings, mirrored, shape x    *)
(* negated.                                                                *)
C9_Witness ==
    /\ reg.pc = "done"
    /\ reg.before.shape_points = SeedShape
    /\ reg.before.sheet_points = SeedSheet5
    /\ reg.region.mirroring = 1
    /\ reg.region.shape_points[2].x = -10

(* The decision table of the spec, first matching row.                     *)
TableRotation(px, py, qx, qy) ==
    LET neither == px # "Same" /\ py # "Same"
    IN  CASE px = qx /\ py = qy -> 0
          [] ~(px = qx /\ py = qy) /\ px = "Same" /\ px = qy /\ py = qx -> 90
          [] ~(px = qx /\ py = qy) /\ px = "Same" /\ px = qy /\ py # qx -> 270
          [] ~(px = qx /\ py = qy) /\ px = "Same" /\ px # qy -> 180
          [] ~(px = qx /\ py = qy) /\ px # "Same" /\ py = "Same" /\ py = qx /\ px = qy -> 270
          [] ~(px = qx /\ py = qy) /\ px # "Same" /\ py = "Same" /\ py = qx /\ px # qy -> 90
          [] ~(px = qx /\ py = qy) /\ px # "Same" /\ py = "Same" /\ py # qx -> 180
          [] ~(px = qx /\ py = qy) /\ neither /\ px # qx /\ py # qy -> 180
          [] ~(px = qx /\ py = qy) /\ neither /\ ~(px # qx /\ py # qy)
                /\ px = py /\ px # qx -> 270
          [] ~(px = qx /\ py = qy) /\ neither /\ ~(px # qx /\ py # qy)
                /\ px = py /\ px = qx /\ py # qy -> 90
          [] ~(px = qx /\ py = qy) /\ neither /\ ~(px # qx /\ py # qy)
                /\ px # py /\ px # qx -> 90
          [] ~(px = qx /\ py = qy) /\ neither /\ ~(px # qx /\ py # qy)
                /\ px # py /\ px = qx /\ py # qy -> 270
          [] OTHER -> 0

(* The four comparisons of the claim: sheet points 1 vs 0 (py inverted),   *)
(* shape points 1 vs 0 after the mirroring negation.                       *)
ClaimPx == Cmp(reg.before.sheet_points[2].x, reg.before.sheet_points[1].x)
ClaimPy == CmpInverted(reg.before.sheet_points[2].y, reg.before.sheet_points[1].y)
ClaimQx ==
    LET m == IF reg.region.mirroring = 1 THEN -1 ELSE 1
    IN  Cmp(m * reg.before.shape_points[2].x, m * reg.before.shape_points[1].x)
ClaimQy == Cmp(reg.before.shape_points[2].y, reg.before.shape_points[1].y)

(* C10: the rotation region_rotation computes is the rotation of the       *)
(* first matching row of the decision table, plus 180 mod 360 when the     *)
(* sheet winding is negative and the table gives 90 or 270; it is one of   *)
(* 0, 90, 180, 270.                                                        *)
C10_RotationFromTable ==
    (reg.pc = "done" /\ reg.before.num_points >= 2) =>
        LET t == TableRotation(ClaimPx, ClaimPy, ClaimQx, ClaimQy)
            neg == SignedArea2(reg.before.sheet_points) < 0
        IN  /\ reg.region.rotation =
                  IF neg /\ t \in {90, 270} THEN (t + 180) % 360 ELSE t
            /\ reg.region.rotation \in {0, 90, 180, 270}

(* A region whose table row gives 90 (px Same, qy Same, py = qx) on a      *)
(* sheet of negative winding, so that the result is 270.                   *)
C10_Witness ==
    /\ reg.pc = "done"
    /\ reg.before.num_points >= 2
    /\ SignedArea2(reg.before.sheet_points) < 0
    /\ ClaimPx = "Same"
    /\ TableRotation(ClaimPx, ClaimPy, ClaimQx, ClaimQy) = 90
    /\ reg.region.rotation = 270

(* C21: whenever both px and py are Same (sheet points 0 and 1 coincide)   *)
(* region_rotation yields rotation 0, for every qx and qy and either       *)
(* sheet orientation.                                                      *)
C21_AmbiguousSheetGivesZero ==
    (reg.pc = "done" /\ reg.before.num_points >= 2
        /\ ClaimPx = "Same" /\ ClaimPy = "Same") =>
        reg.region.rotation = 0

----------------------------------------------------------------------------
(* Sprite file names (src/extractors/sc.rs, write_shape).                  *)

(* The largest n whose square still fits the integers of the checker.      *)
SqrtIntMax == 46340

(* (shape_count as f64).log10().round() as usize: the number of k >= 1     *)
(* with n >= 10^(k - 1/2), i.e. n * n >= 10^(2k - 1); log10(0) is -inf,    *)
(* which the cast saturates to 0.  shape_count is a u16, so k <= 5.        *)
RoundLog10(n) ==
    LET m == Min(n, SqrtIntMax)
    IN  Cardinality({k \in 1..5 : m * m >= 10 ^ (2 * k - 1)})

(* let max_range = (shape_count as f64).log10().round() as usize + 1       *)
max_range(shape_count) == RoundLog10(shape_count) + 1

(* The decimal digits of x, most significant first.                        *)
RECURSIVE Decimal(_)
Decimal(x) == IF x < 10 THEN <<x>> ELSE Append(Decimal(x \div 10), x % 10)

(* format!("{:0>2$}", x, width): x right-aligned in width columns, padded  *)
(* with '0'; a longer x is never cut.                                      *)
FormatPadded(x, width) ==
    LET d == Decimal(x)
    IN  IF Len(d) >= width THEN d ELSE Zeros(width - Len(d)) \o d

----------------------------------------------------------------------------
(* SpecName: the outer parallel loop of write_shape saves sprite x of      *)
(* 0..shape_count-1, in any order, under the name built from x and         *)
(* max_range.                                                              *)

MaxShapeCount == 10

InitName ==
    /\ \E shape_count \in 0..MaxShapeCount :
          nm = [pc |-> "sprites", shape_count |-> shape_count,
                max_range |-> max_range(shape_count),
                saved |-> {}, x |-> 0, index_text |-> <<>>]
    /\ rd = NewReader(<<>>)
    /\ last = NoOp
    /\ eof_seek = FALSE
    /\ tex = IdleTex
    /\ adj = IdleAdj
    /\ reg = IdleReg
    /\ csv = IdleCsv
    /\ geo = IdleGeo
    /\ sc = IdleSc
    /\ ws = IdleWs
    /\ bb = IdleBb

SaveSprite ==
    /\ nm.pc = "sprites"
    /\ \E x \in 0..(nm.shape_count - 1) :
          /\ x \notin nm.saved
          /\ nm' = [nm EXCEPT !.saved = @ \cup {x}, !.x = x,
                              !.index_text = FormatPadded(x, nm.max_range)]
    /\ UNCHANGED <<rd, last, eof_seek, tex, adj, reg, csv, geo, sc, ws, bb>>

NamesReturn ==
    /\ nm.pc = "sprites"
    /\ nm.saved = 0..(nm.shape_count - 1)
    /\ nm' = [nm EXCEPT !.pc = "done"]
    /\ UNCHANGED <<rd, last, eof_seek, tex, adj, reg, csv, geo, sc, ws, bb>>

NextName == SaveSprite \/ NamesReturn

SpecName == InitName /\ [][NextName]_vars

(* The decimal digit count of n >= 1, by repeated division.                *)
RECURSIVE DigitCount(_)
DigitCount(n) == IF n < 10 THEN 1 ELSE 1 + DigitCount(n \div 10)

(* C12: for every shape_count >= 1 sprite k is saved under an index        *)
(* zero-padded to floor(log10(shape_count)) + 1 digits, the decimal digit  *)
(* count of shape_count: shape_count = 5 gives names of one digit.         *)
C12_IndexPaddedToDigitCount ==
    (nm.pc = "sprites" /\ nm.saved # {}) =>
        /\ Len(nm.index_text) = DigitCount(nm.shape_count)
        /\ nm.shape_count = 5 => Len(nm.index_text) = 1

----------------------------------------------------------------------------
(* CSV extractor (src/extractors/csv.rs, process_csv).                     *)

(* SpecCsv: process_csv on an input of data_len bytes.  What the LZMA      *)
(* library makes of the input is part of the input: lzma.valid tells       *)
(* whether it is a valid compressed stream, lzma.stream what it            *)
(* decompresses to; a valid stream has at least its 9 header bytes.        *)
(* fs_ok tells whether out_dir can be written to.                          *)

MaxCsvLen == 12
MaxCsvOut == 3

CsvPayloads ==
    {InvalidLzma} \cup {[valid |-> TRUE, stream |-> t] : t \in SeqsUpTo({1, 2}, MaxCsvOut)}

InitCsv ==
    /\ \E data_len \in 0..MaxCsvLen, lzma \in CsvPayloads, fs_ok \in BOOLEAN :
          /\ lzma.valid => data_len >= LzmaHeadLen
          /\ csv = [pc |-> "decompress", data_len |-> data_len, lzma |-> lzma,
                    fs_ok |-> fs_ok, decompressed |-> <<>>, result |-> "running",
                    files |-> <<>>]
    /\ rd = NewReader(<<>>)
    /\ last = NoOp
    /\ eof_seek = FALSE
    /\ tex = IdleTex
    /\ adj = IdleAdj
    /\ reg = IdleReg
    /\ nm = IdleNm
    /\ geo = IdleGeo
    /\ sc = IdleSc
    /\ ws = IdleWs
    /\ bb = IdleBb

(* let decompressed = match decompress(data) { Ok(c) => c,                 *)
(*                                             Err(e) => return Err(e) }   *)
CsvDecompress ==
    /\ csv.pc = "decompress"
    /\ LET d == decompress(csv.data_len, csv.lzma)
       IN  csv' = IF d.res = "Ok"
                  THEN [csv EXCEPT !.pc = "write", !.decompressed = d.cursor]
                  ELSE [csv EXCEPT !.pc = "done", !.result = d.res]
    /\ UNCHANGED <<rd, last, eof_seek, tex, adj, reg, nm, geo, sc, ws, bb>>

(* fs::write(out_dir.join(file_name), decompressed.get_ref())?; Ok(())     *)
CsvWrite ==
    /\ csv.pc = "write"
    /\ csv' = IF csv.fs_ok
              THEN [csv EXCEPT !.pc = "done", !.result = "Ok",
                               !.files = Append(@, csv.decompressed)]
              ELSE [csv EXCEPT !.pc = "done", !.result = "IoError"]
    /\ UNCHANGED <<rd, last, eof_seek, tex, adj, reg, nm, geo, sc, ws, bb>>

NextCsv == CsvDecompress \/ CsvWrite

SpecCsv == InitCsv /\ [][NextCsv]_vars

(* C19: for every input that is not a valid compressed stream, the empty   *)
(* input and inputs shorter than 9 bytes included, process_csv returns     *)
(* Err(DecompressionError) as a value, never panics, and writes no file.   *)
C19_InvalidCsvIsAnError ==
    (csv.pc = "done" /\ ~csv.lzma.valid) =>
        /\ csv.result = "DecompressionError"
        /\ csv.files = <<>>

----------------------------------------------------------------------------
(* u32 values (src/extractors/sc.rs, the fields of Region and              *)
(* SpriteGlobal).  A u32 is kept as two 16-bit halves, so that values up   *)
(* to 2^32 - 1 and the wrap-around of a sum can be told apart.             *)

Two16 == 65536

(* A value 0 <= n < 2^31 as a u32.                                         *)
U32(n) == [hi |-> n \div Two16, lo |-> n % Two16]

U32Max == [hi |-> Two16 - 1, lo |-> Two16 - 1]

(* a > b on u32.                                                           *)
U32Gt(a, b) == a.hi > b.hi \/ (a.hi = b.hi /\ a.lo > b.lo)

(* `a as i32`: the same 32 bits read as two's complement.                  *)
U32AsI32(a) == (IF a.hi >= Two16 \div 2 THEN a.hi - Two16 ELSE a.hi) * Two16 + a.lo

(* `i as u32` for an i32.                                                  *)
I32AsU32(i) == [hi |-> (i \div Two16) % Two16, lo |-> i % Two16]

(* a + b on u32: the wrapped sum and whether it overflowed.                *)
U32Add(a, b) ==
    [overflow |-> a.hi + b.hi + ((a.lo + b.lo) \div Two16) >= Two16,
     val |-> [hi |-> (a.hi + b.hi + ((a.lo + b.lo) \div Two16)) % Two16,
              lo |-> (a.lo + b.lo) % Two16]]

Abs(v) == IF v < 0 THEN -v ELSE v

(* (num as f64 / den as f64).abs().round() as u32.  x / 0.0 is NaN for     *)
(* x = 0 and an infinity otherwise; the cast takes NaN to 0 and saturates  *)
(* +inf to u32::MAX; round() rounds halves away from zero.                 *)
F64AbsRoundAsU32(num, den) ==
    IF den = 0 THEN (IF num = 0 THEN U32(0) ELSE U32Max)
    ELSE U32((2 * Abs(num) + Abs(den)) \div (2 * Abs(den)))

----------------------------------------------------------------------------
(* The geometry pass (src/extractors/sc.rs, write_shape, the loops before  *)
(* the parallel section).                                                  *)

SetMax(S) == CHOOSE m \in S : \A e \in S : e <= m
SetMin(S) == CHOOSE m \in S : \A e \in S : e >= m

(* Region { top: -32767, left: 32767, bottom: 32767, right: -32767,        *)
(*          ..Default::default() }                                         *)
SentinelRegion ==
    [sheet_id |-> 0, num_points |-> 0, rotation |-> 0, mirroring |-> 0,
     shape_points |-> <<>>, sheet_points |-> <<>>,
     sprite_width |-> U32(0), sprite_height |-> U32(0),
     region_zero_x |-> U32(0), region_zero_y |-> U32(0),
     top |-> -32767, left |-> 32767, bottom |-> 32767, right |-> -32767,
     panic |-> FALSE]

(* A region as the parser fills it from a 0x16 record.                     *)
FilledRegion(sheet_id, shape_points, sheet_points) ==
    [SentinelRegion EXCEPT !.sheet_id = sheet_id, !.num_points = Len(shape_points),
                           !.shape_points = shape_points,
                           !.sheet_points = sheet_points]

(* The loop over z, first half: top / left / bottom / right of the region  *)
(* follow the shape points.                                                *)
ShapeBounds(region) ==
    [region EXCEPT
        !.top    = SetMax({@} \cup {region.shape_points[z].y : z \in 1..region.num_points}),
        !.left   = SetMin({@} \cup {region.shape_points[z].x : z \in 1..region.num_points}),
        !.bottom = SetMin({@} \cup {region.shape_points[z].y : z \in 1..region.num_points}),
        !.right  = SetMax({@} \cup {region.shape_points[z].x : z \in 1..region.num_points})]

(* The loop over z, second half: region_min / region_max of the sheet      *)
(* points, from their start values 32676 and -32676.                       *)
SheetExtent(region) ==
    [region_min_x |-> SetMin({32676} \cup {region.sheet_points[z].x : z \in 1..region.num_points}),
     region_max_x |-> SetMax({-32676} \cup {region.sheet_points[z].x : z \in 1..region.num_points}),
     region_min_y |-> SetMin({32676} \cup {region.sheet_points[z].y : z \in 1..region.num_points}),
     region_max_y |-> SetMax({-32676} \cup {region.sheet_points[z].y : z \in 1..region.num_points})]

(* sprite_width / sprite_height from the sheet extent, swapped for         *)
(* rotations of 90 and 270.                                                *)
RegionSize(region, e) ==
    IF region.rotation = 90 \/ region.rotation = 270
    THEN [region EXCEPT !.sprite_width  = I32AsU32(e.region_max_y - e.region_min_y),
                        !.sprite_height = I32AsU32(e.region_max_x - e.region_min_x)]
    ELSE [region EXCEPT !.sprite_width  = I32AsU32(e.region_max_x - e.region_min_x),
                        !.sprite_height = I32AsU32(e.region_max_y - e.region_min_y)]

(* "Determine origin pixel": region_zero_x and region_zero_y.              *)
RegionZero(region) ==
    [region EXCEPT
        !.region_zero_x = F64AbsRoundAsU32(region.left * U32AsI32(region.sprite_width),
                                           region.right - region.left),
        !.region_zero_y = F64AbsRoundAsU32(region.bottom * U32AsI32(region.sprite_height),
                                           region.top - region.bottom)]

(* The running maxima after a region.                                      *)
GeomMaxes(g, region) ==
    [g EXCEPT
        !.max_left  = IF U32Gt(region.region_zero_x, @) THEN region.region_zero_x ELSE @,
        !.max_above = IF U32Gt(region.region_zero_y, @) THEN region.region_zero_y ELSE @,
        !.max_right = SetMax({@, U32AsI32(region.sprite_width)
                                 - U32AsI32(region.region_zero_x)}),
        !.max_below = SetMax({@, U32AsI32(region.sprite_height)
                                 - U32AsI32(region.region_zero_y)})]

(* The body of the loop over y for region y of sprite x: bounds,           *)
(* region_rotation, size, origin, maxima.  A panic of region_rotation      *)
(* ends the pass.                                                          *)
GeomAfterRotation(g, x, y, rotated, e) ==
    IF rotated.panic
    THEN [g EXCEPT !.pc = "panic", !.cause = "region_rotation",
                   !.sprite_data[x].regions[y] = rotated]
    ELSE GeomMaxes([g EXCEPT !.y = y + 1,
                             !.sprite_data[x].regions[y] = RegionZero(RegionSize(rotated, e))],
                   RegionZero(RegionSize(rotated, e)))

GeomRegionBody(g, x, y) ==
    GeomAfterRotation(g, x, y,
                      region_rotation(ShapeBounds(g.sprite_data[x].regions[y])),
                      SheetExtent(g.sprite_data[x].regions[y]))

(* sprite_global.sprite_width = max_left + max_right as u32 + 2 (and the   *)
(* height likewise): u32 sums, which panic on overflow in a build with     *)
(* overflow checks and wrap around in a build without.                     *)
CanvasSide(max_before, max_after) ==
    LET first == U32Add(max_before, I32AsU32(max_after))
    IN  [overflow |-> first.overflow \/ U32Add(first.val, U32(2)).overflow,
         val |-> U32Add(first.val, U32(2)).val]

GeomGlobal(g, w, h) ==
    IF (w.overflow \/ h.overflow) /\ g.overflow_checks
    THEN [g EXCEPT !.pc = "panic", !.cause = "overflow"]
    ELSE [g EXCEPT !.pc = "done",
                   !.sprite_global = [sprite_width |-> w.val, sprite_height |-> h.val,
                                      global_zero_x |-> g.max_left,
                                      global_zero_y |-> g.max_above]]

(* The state at the top of write_shape.                                    *)
GeomEntry(sprite_data, overflow_checks) ==
    [pc |-> "regions", sprite_data |-> sprite_data, x |-> 1, y |-> 1,
     max_left |-> U32(0), max_right |-> 0, max_above |-> U32(0), max_below |-> 0,
     sprite_global |-> [sprite_width |-> U32(0), sprite_height |-> U32(0),
                        global_zero_x |-> U32(0), global_zero_y |-> U32(0)],
     overflow_checks |-> overflow_checks, cause |-> "none"]

----------------------------------------------------------------------------
(* SpecGeom: the geometry pass of write_shape over the sprite_data of a    *)
(* parsed file, one loop step per action.  The file has up to              *)
(* MaxGeomRegions regions in one sprite or spread over two; a region has   *)
(* up to MaxGeomPoints points with coordinates from GeomCoords, or is one  *)
(* of the squares of the seed scenarios.  overflow_checks tells whether    *)
(* the build panics on integer overflow (debug) or wraps (release).        *)

MaxGeomPoints == 2
MaxGeomRegions == 2

GeomCoords == {0, 1}

GeomPointLists(n) ==
    {pts \in SeqsUpTo({Point(x, y) : x \in GeomCoords, y \in GeomCoords}, n) :
        Len(pts) = n}

GeomRegions ==
    {FilledRegion(0, shape, sheet) :
        shape \in {SeedShape}, sheet \in {SeedSheet4, SeedSheet5}}
    \cup UNION {{FilledRegion(0, shape, sheet) :
                    shape \in GeomPointLists(n), sheet \in GeomPointLists(n)} :
                n \in 0..MaxGeomPoints}

(* The regions that accompany the region under study: the seed squares    *)
(* and the regions whose points lie on the diagonal of GeomCoords.         *)
GeomCompanions ==
    {r \in GeomRegions :
        \/ r.shape_points = SeedShape
        \/ \A z \in 1..r.num_points :
              r.shape_points[z].x = r.shape_points[z].y
              /\ r.sheet_points[z].x = r.sheet_points[z].y}

NewSprite(regions) == [id |-> 0, total_regions |-> Len(regions), regions |-> regions]

(* The sprite tables of the model: a region r alone, r before or after a   *)
(* companion in one sprite, and r in a sprite followed by a second sprite  *)
(* of up to MaxGeomRegions - 1 companions.                                 *)
GeomSpriteData(max_regions) ==
    UNION {{<<NewSprite(<<r>> \o os)>>, <<NewSprite(os \o <<r>>)>>,
            <<NewSprite(<<r>>), NewSprite(os)>>} :
           r \in GeomRegions, os \in SeqsUpTo(GeomCompanions, max_regions - 1)}

InitGeom ==
    /\ \E sprite_data \in GeomSpriteData(MaxGeomRegions), overflow_checks \in BOOLEAN :
          geo = GeomEntry(sprite_data, overflow_checks)
    /\ rd = NewReader(<<>>)
    /\ last = NoOp
    /\ eof_seek = FALSE
    /\ tex = IdleTex
    /\ adj = IdleAdj
    /\ reg = IdleReg
    /\ nm = IdleNm
    /\ csv = IdleCsv
    /\ sc = IdleSc
    /\ ws = IdleWs
    /\ bb = IdleBb

(* for y in 0..sprite_item.total_regions: one region.                      *)
GeomRegion ==
    /\ geo.pc = "regions"
    /\ geo.x <= Len(geo.sprite_data)
    /\ geo.y <= geo.sprite_data[geo.x].total_regions
    /\ geo' = GeomRegionBody(geo, geo.x, geo.y)
    /\ UNCHANGED <<rd, last, eof_seek, tex, adj, reg, nm, csv, sc, ws, bb>>

(* for sprite_item in sprite_data.iter_mut().take(shape_count): the next   *)
(* sprite once the regions of this one are done.                           *)
GeomNextSprite ==
    /\ geo.pc = "regions"
    /\ geo.x <= Len(geo.sprite_data)
    /\ geo.y > geo.sprite_data[geo.x].total_regions
    /\ geo' = [geo EXCEPT !.x = @ + 1, !.y = 1]
    /\ UNCHANGED <<rd, last, eof_seek, tex, adj, reg, nm, csv, sc, ws, bb>>

(* After the loops: the canvas size and the global pivot.                  *)
GeomFinish ==
    /\ geo.pc = "regions"
    /\ geo.x > Len(geo.sprite_data)
    /\ geo' = GeomGlobal(geo, CanvasSide(geo.max_left, geo.max_right),
                         CanvasSide(geo.max_above, geo.max_below))
    /\ UNCHANGED <<rd, last, eof_seek, tex, adj, reg, nm, csv, sc, ws, bb>>

NextGeom == GeomRegion \/ GeomNextSprite \/ GeomFinish

SpecGeom == InitGeom /\ [][NextGeom]_vars

(* All regions of all sprites of the file.                                 *)
GeoAllRegions ==
    {geo.sprite_data[x].regions[y] :
        <<x, y>> \in {q \in (1..Len(geo.sprite_data)) \X (1..MaxGeomRegions) :
                        q[2] <= Len(geo.sprite_data[q[1]].regions)}}

(* m is the maximum of the u32 values S and 0.                             *)
IsMaxU32(m, S) ==
    /\ \A v \in S : ~U32Gt(v, m)
    /\ m \in S \cup {U32(0)}

(* w = a + b + 2 in the integers, for a u32 a and an integer b >= 0 and    *)
(* with the sum below 2^32.                                                *)
IsExactSum(w, a, b) ==
    LET lo == a.lo + (b % Two16) + 2
        hi == a.hi + (b \div Two16) + (lo \div Two16)
    IN  hi < Two16 /\ w = [hi |-> hi, lo |-> lo % Two16]

(* C11: after the geometry pass the canvas is max_left + max_right + 2     *)
(* wide and max_above + max_below + 2 high with pivot (max_left,           *)
(* max_above), the maxima taken over all regions of all sprites and at     *)
(* least 0, and the sums are computed without wrap-around, also for        *)
(* regions whose shape bounding box has zero width or height.              *)
C11_CanvasFromMaxima ==
    (geo.pc = "done" \/ (geo.pc = "panic" /\ geo.cause = "overflow")) =>
        /\ geo.pc = "done"
        /\ IsMaxU32(geo.max_left, {r.region_zero_x : r \in GeoAllRegions})
        /\ IsMaxU32(geo.max_above, {r.region_zero_y : r \in GeoAllRegions})
        /\ geo.max_right = SetMax({0} \cup
              {U32AsI32(r.sprite_width) - U32AsI32(r.region_zero_x) : r \in GeoAllRegions})
        /\ geo.max_below = SetMax({0} \cup
              {U32AsI32(r.sprite_height) - U32AsI32(r.region_zero_y) : r \in GeoAllRegions})
        /\ IsExactSum(geo.sprite_global.sprite_width, geo.max_left, geo.max_right)
        /\ IsExactSum(geo.sprite_global.sprite_height, geo.max_above, geo.max_below)
        /\ geo.sprite_global.global_zero_x = geo.max_left
        /\ geo.sprite_global.global_zero_y = geo.max_above

(* let paste_left = sprite_global.global_zero_x - region.region_zero_x     *)
(* (and paste_top likewise): a u32 difference and whether it underflows.   *)
PasteOffset(global_zero, region_zero) ==
    [underflow |-> U32Gt(region_zero, global_zero),
     val |-> [hi |-> (global_zero.hi - region_zero.hi
                      - (IF global_zero.lo < region_zero.lo THEN 1 ELSE 0)) % Two16,
              lo |-> (global_zero.lo - region_zero.lo) % Two16]]

(* paste + size + 2 <= canvas, in the integers.                            *)
FitsWithMargin(paste, size, canvas) ==
    /\ ~U32Add(paste, size).overflow
    /\ ~U32Add(U32Add(paste, size).val, U32(2)).overflow
    /\ ~U32Gt(U32Add(U32Add(paste, size).val, U32(2)).val, canvas)

(* C25: for every region of every sprite region_zero <= global_zero in x   *)
(* and y, so the paste offset never underflows, and paste_left +           *)
(* sprite_width <= canvas_width - 2 and paste_top + sprite_height <=       *)
(* canvas_height - 2.                                                      *)
C25_PasteInsideCanvas ==
    geo.pc = "done" =>
        \A r \in GeoAllRegions :
            /\ ~PasteOffset(geo.sprite_global.global_zero_x, r.region_zero_x).underflow
            /\ ~PasteOffset(geo.sprite_global.global_zero_y, r.region_zero_y).underflow
            /\ FitsWithMargin(
                   PasteOffset(geo.sprite_global.global_zero_x, r.region_zero_x).val,
                   r.sprite_width, geo.sprite_global.sprite_width)
            /\ FitsWithMargin(
                   PasteOffset(geo.sprite_global.global_zero_y, r.region_zero_y).val,
                   r.sprite_height, geo.sprite_global.sprite_height)

(* C17: a region of one or more points whose first sheet vertex equals     *)
(* its last does not make the geometry pass panic.                         *)
C17_ClosedPolygonNoPanic ==
    \A x \in 1..Len(geo.sprite_data) :
        \A y \in 1..Len(geo.sprite_data[x].regions) :
            LET r == geo.sprite_data[x].regions[y]
            IN  (r.num_points >= 1 /\ r.sheet_points[1] = r.sheet_points[r.num_points])
                    => ~r.panic

----------------------------------------------------------------------------
(* SC parser (src/extractors/sc.rs, process_sc).  `s` is the state of the  *)
(* call: its reader `stream`, its locals and the tables it fills.          *)

(* One typed read of the reader.                                           *)
ReadField(r, kind) ==
    CASE kind = "u8"  -> read_byte(r)
      [] kind = "u16" -> read_uint16(r)
      [] kind = "u32" -> read_uint32(r)
      [] kind = "i16" -> read_int16(r)
      [] kind = "i32" -> read_int32(r)

(* Typed reads one after the other: the reader after them and the values.  *)
RECURSIVE ReadFields(_, _, _)
ReadFields(r, kinds, vals) ==
    IF kinds = <<>> THEN [rd |-> r, vals |-> vals]
    ELSE ReadFields(ReadField(r, Head(kinds)).rd, Tail(kinds),
                    Append(vals, ReadField(r, Head(kinds)).val))

Repeat(kind, n) == [k \in 1..n |-> kind]

(* n times: a length byte, then read_string(length) unless the length is   *)
(* 255 and lengths of 255 are skipped.                                     *)
RECURSIVE ReadStrings(_, _, _)
ReadStrings(r, n, skip_255) ==
    IF n <= 0 THEN r
    ELSE IF skip_255 /\ read_byte(r).val = 255
         THEN ReadStrings(read_byte(r).rd, n - 1, skip_255)
         ELSE ReadStrings(read_string(read_byte(r).rd, read_byte(r).val).rd,
                          n - 1, skip_255)

(* A panic of process_sc: an index out of range.                           *)
ScPanic(s, cause) == [s EXCEPT !.pc = "panic", !.result = "panic", !.cause = cause]

LowResEither(image, width, height) == image.width # width \/ image.height # height

(* image.width() != sheet_data[offset_sheet].x                             *)
(*     && image.height() != sheet_data[offset_sheet].y                     *)
LowRes(image, width, height) == image.width # width /\ image.height # height

(* Tags 0x01 and 0x18: a texture descriptor.                               *)
ScTextureFields(s, f) ==
    IF s.offset_sheet >= Len(s.sheet_data)
    THEN ScPanic([s EXCEPT !.stream = f.rd], "sheet_data[offset_sheet]")
    ELSE [s EXCEPT
            !.stream = f.rd,
            !.sheet_data[s.offset_sheet + 1] = [x |-> f.vals[2], y |-> f.vals[3], divider |-> 1],
            !.use_low_res = @ \/ LowRes(s.sheet_image[s.offset_sheet + 1],
                                        f.vals[2], f.vals[3]),
            !.offset_sheet = @ + 1]

ScTextureBlock(s) ==
    ScTextureFields(s, ReadFields(s.stream, <<"u8", "u16", "u16">>, <<>>))

(* (u16 as f32 * dim as f32 / 65535.0).round(): the sheet coordinate       *)
(* before the low-resolution division.                                     *)
SheetCoordFull(raw, dim) == (2 * raw * dim + 65535) \div (2 * 65535)

(* ... / (i as f32)) as i32: the division, truncated by the cast.          *)
SheetCoord(raw, dim, i) == SheetCoordFull(raw, dim) \div i

PointsOf(vals) == [z \in 1..(Len(vals) \div 2) |-> Point(vals[2 * z - 1], vals[2 * z])]

(* The sheet points of a 0x16 record from its raw u16 pairs.               *)
ScaledPoints(vals, sheet, i) ==
    [z \in 1..(Len(vals) \div 2) |->
        Point(SheetCoord(vals[2 * z - 1], sheet.x, i), SheetCoord(vals[2 * z], sheet.y, i))]

FullPoints(vals, sheet) ==
    [z \in 1..(Len(vals) \div 2) |->
        Point(SheetCoordFull(vals[2 * z - 1], sheet.x), SheetCoordFull(vals[2 * z], sheet.y))]

(* What the parser did for one region slot, between the readers r0 and     *)
(* r1: the sub-tag it read, len() before, the bytes the slot consumed,     *)
(* the divider in force, the sheet points before the division, and         *)
(* whether sheet_data[sheet_id] was out of range.                          *)
RegionNote(r0, r1, sub_tag, i, full, index_panic) ==
    [sub_tag |-> sub_tag, len_before |-> r0.bytes_left, consumed |-> r1.pos - r0.pos,
     i |-> i, full |-> full, index_panic |-> index_panic]

(* A 0x16 record after its two point loops.                                *)
ScRegionPoints(r0, sheet_data, i, sheet_id, num_points, shape, sheet, sub_tag) ==
    IF num_points > 0 /\ sheet_id >= Len(sheet_data)
    THEN [rd |-> sheet.rd,
          region |-> [FilledRegion(sheet_id, PointsOf(shape.vals), PointsOf(shape.vals))
                        EXCEPT !.sheet_points = [z \in 1..num_points |-> Point(0, 0)]],
          note |-> RegionNote(r0, sheet.rd, sub_tag, i, <<>>, TRUE)]
    ELSE [rd |-> sheet.rd,
          region |-> FilledRegion(sheet_id, PointsOf(shape.vals),
                        IF num_points = 0 THEN <<>>
                        ELSE ScaledPoints(sheet.vals, sheet_data[sheet_id + 1], i)),
          note |-> RegionNote(r0, sheet.rd, sub_tag, i,
                        IF num_points = 0 THEN <<>>
                        ELSE FullPoints(sheet.vals, sheet_data[sheet_id + 1]), FALSE)]

ScRegionShape(r0, sheet_data, i, sheet_id, num_points, shape, sub_tag) ==
    ScRegionPoints(r0, sheet_data, i, sheet_id, num_points, shape,
                   ReadFields(shape.rd, Repeat("u16", 2 * num_points), <<>>), sub_tag)

ScRegionHead(r0, sheet_data, i, f, sub_tag) ==
    ScRegionShape(r0, sheet_data, i, f.vals[2], f.vals[3],
                  ReadFields(f.rd, Repeat("i32", 2 * f.vals[3]), <<>>), sub_tag)

(* One pass of the loop over y: the sub-tag byte, and the record if the    *)
(* sub-tag is 0x16; otherwise the slot keeps its sentinel.                 *)
ScRegionTagged(r0, sheet_data, i, t) ==
    IF t.out = <<22>>
    THEN ScRegionHead(r0, sheet_data, i, ReadFields(t.rd, <<"u32", "u8", "u8">>, <<>>), t.out)
    ELSE [rd |-> t.rd, region |-> SentinelRegion,
          note |-> RegionNote(r0, t.rd, t.out, i, <<>>, FALSE)]

ScRegion(r, sheet_data, i) == ScRegionTagged(r, sheet_data, i, read(r, 1))

(* The loop over y; it stops at an index panic.                            *)
RECURSIVE ScRegions(_, _, _, _, _, _)
ScRegions(r, todo, sheet_data, i, regions, notes) ==
    IF todo = 0 \/ (notes # <<>> /\ notes[Len(notes)].index_panic)
    THEN [rd |-> r, regions |-> regions, notes |-> notes,
          panic |-> notes # <<>> /\ notes[Len(notes)].index_panic]
    ELSE LET one == ScRegion(r, sheet_data, i)
         IN  ScRegions(one.rd, todo - 1, sheet_data, i,
                       Append(regions, one.region), Append(notes, one.note))

(* Tag 0x12: a polygon block.                                              *)
ScPolygonRegions(s, f, p) ==
    IF p.panic
    THEN ScPanic([s EXCEPT !.stream = p.rd,
                           !.notes[s.offset_shape + 1] = p.notes],
                 "sheet_data[sheet_id]")
    ELSE [s EXCEPT
            !.stream = read(p.rd, 5).rd,
            !.sprite_data[s.offset_shape + 1] =
                [id |-> f.vals[1], total_regions |-> f.vals[2],
                 regions |-> p.regions],
            !.notes[s.offset_shape + 1] = p.notes,
            !.offset_shape = @ + 1]

ScPolygonFields(s, f) ==
    IF s.offset_shape >= Len(s.sprite_data)
    THEN ScPanic([s EXCEPT !.stream = f.rd], "sprite_data[offset_shape]")
    ELSE ScPolygonRegions(s, f,
            ScRegions(f.rd, f.vals[2], s.sheet_data,
                      IF s.use_low_res THEN 2 ELSE 1, <<>>, <<>>))

ScPolygonBlock(s) ==
    ScPolygonFields(s, ReadFields(s.stream, <<"u16", "u16", "u16">>, <<>>))

(* Tag 0x08: a matrix, six i32.                                            *)
ScMatrixBlock(s) ==
    [s EXCEPT !.stream = ReadFields(s.stream, Repeat("i32", 6), <<>>).rd]

(* Tag 0x0c: an animation.                                                 *)
ScAnimationNames(s, c) ==
    [s EXCEPT !.stream =
        ReadStrings(ReadFields(c.rd, Repeat("i16", c.val) \o Repeat("u8", c.val), <<>>).rd,
                    c.val, TRUE)]

ScAnimationFrames(s, f) ==
    ScAnimationNames(s, read_int16(ReadFields(f.rd, Repeat("u16", 3 * f.vals[4]), <<>>).rd))

ScAnimationBlock(s) ==
    ScAnimationFrames(s, ReadFields(s.stream, <<"u16", "u8", "u16", "i32">>, <<>>))

(* Any other tag: data_block_size bytes are skipped.                       *)
ScOtherBlock(s, data_block_size) ==
    [s EXCEPT !.stream = read(s.stream, data_block_size).rd]

(* One pass of `while stream.len() > 0`: the tag is the hex text of what   *)
(* read(1) returns, so it matches a two-digit literal only when read(1)    *)
(* returns exactly one byte.                                               *)
ScBlockTagged(s, data_block_tag, data_block_size) ==
    CASE data_block_tag \in {<<1>>, <<24>>}  -> ScTextureBlock(s)
      [] data_block_tag \in {<<30>>, <<26>>} -> s
      [] data_block_tag = <<18>>             -> ScPolygonBlock(s)
      [] data_block_tag = <<8>>              -> ScMatrixBlock(s)
      [] data_block_tag = <<12>>             -> ScAnimationBlock(s)
      [] OTHER                               -> ScOtherBlock(s, data_block_size)

ScBlockSized(s, t, z) ==
    ScBlockTagged([s EXCEPT !.stream = z.rd, !.tag = t.out], t.out, z.val)

ScBlock(s) ==
    ScBlockSized(s, read(s.stream, 1), read_uint32(read(s.stream, 1).rd))

(* The header: six u16, the tables, and the sheet images of png_dir; a     *)
(* missing or unreadable png ends the call with an error.                  *)
ScSheets(s, f, pngs) ==
    IF \E x \in 1..f.vals[3] : x > Len(pngs) \/ ~pngs[x].exists
    THEN [s EXCEPT !.pc = "done", !.result = "Other", !.stream = f.rd]
    ELSE IF \E x \in 1..f.vals[3] : ~pngs[x].readable
    THEN [s EXCEPT !.pc = "done", !.result = "IoError", !.stream = f.rd]
    ELSE [s EXCEPT
            !.pc = "exports",
            !.stream = f.rd,
            !.shape_count = f.vals[1],
            !.total_textures = f.vals[3],
            !.sheet_data = [x \in 1..f.vals[3] |-> [x |-> 0, y |-> 0, divider |-> 1]],
            !.sprite_data = [x \in 1..f.vals[1] |-> NewSprite(<<>>)],
            !.notes = [x \in 1..f.vals[1] |-> <<>>],
            !.sheet_image = [x \in 1..f.vals[3] |->
                                [width |-> pngs[x].width, height |-> pngs[x].height]]]

ScHeader(s, pngs) ==
    ScSheets(s, ReadFields(s.stream, Repeat("u16", 6), <<>>), pngs)

(* read(5), export_count, the export ids and the export names.             *)
ScExportNames(s, c) ==
    [s EXCEPT !.pc = "blocks",
              !.stream = ReadStrings(ReadFields(c.rd, Repeat("u16", c.val), <<>>).rd,
                                     c.val, FALSE)]

ScExports(s) == ScExportNames(s, read_uint16(read(s.stream, 5).rd))

(* process_sc(data, ..): the state on entry.                               *)
ScEntry(data, pngs) ==
    [pc |-> "header", data |-> data, pngs |-> pngs, stream |-> NewReader(data),
     shape_count |-> 0, total_textures |-> 0, use_low_res |-> FALSE,
     sheet_data |-> <<>>, sprite_data |-> <<>>, sheet_image |-> <<>>,
     offset_shape |-> 0, offset_sheet |-> 0, notes |-> <<>>,
     tag |-> <<>>, len_before |-> 0, iterations |-> 0,
     result |-> "running", cause |-> "none"]

----------------------------------------------------------------------------
(* SpecSc: process_sc on SC byte streams with the sheet images of          *)
(* png_dir, followed by the geometry pass of write_shape on the tables it  *)
(* built.  A stream is a header, the export table and up to MaxScBlocks    *)
(* tagged blocks; streams of up to MaxScCutBlocks blocks are also cut at   *)
(* every offset.                                                           *)

MaxScBlocks == 3        \* tagged blocks of a stream
MaxScCutBlocks == 1     \* tagged blocks of a stream that is cut short
MaxScRegions == 1       \* regions of a polygon block

(* (shape_count, total_textures) of the header.                            *)
ScCounts == {<<1, 1>>, <<2, 2>>}

ScExportCounts == {0, 1}

RECURSIVE Concat(_)
Concat(seqs) == IF seqs = <<>> THEN <<>> ELSE Head(seqs) \o Concat(Tail(seqs))

ScHeaderBytes(counts) ==
    LE16(counts[1]) \o LE16(0) \o LE16(counts[2]) \o LE16(0) \o LE16(0) \o LE16(0)

(* Five bytes, export_count, the ids, the names (one letter each).         *)
ScExportBytes(n) ==
    Zeros(5) \o LE16(n) \o Concat([k \in 1..n |-> LE16(7)])
    \o Concat([k \in 1..n |-> <<1, 97>>])

(* A texture descriptor of a 4 x 4 sheet.                                  *)
TextureBlock == <<1>> \o LE32(5) \o <<0>> \o LE16(4) \o LE16(4)

(* A 0x16 record: two points, the shape (0,0),(1,1), on the sheet the      *)
(* corners (0,0) and (65535,65535).                                        *)
RegionRecord(sheet_id) ==
    <<22>> \o LE32(26) \o <<sheet_id, 2>>
    \o LE32(0) \o LE32(0) \o LE32(1) \o LE32(1)
    \o LE16(0) \o LE16(0) \o LE16(65535) \o LE16(65535)

(* A region slot whose sub-tag is not 0x16.                                *)
SkippedRegion == <<23>>

ScRegionRecords == {RegionRecord(0), RegionRecord(1), SkippedRegion}

PolygonBlock(records) ==
    <<18>> \o LE32(11 + Len(Concat(records))) \o LE16(3) \o LE16(Len(records)) \o LE16(0)
    \o Concat(records) \o Zeros(5)

MatrixBlock == <<8>> \o LE32(24) \o Concat([k \in 1..6 |-> LE32(k)])

(* An animation of one frame and one named clip.                           *)
AnimationBlock ==
    <<12>> \o LE32(22) \o LE16(1) \o <<24>> \o LE16(1)
    \o LE32(1) \o LE16(1) \o LE16(2) \o LE16(3)
    \o LE16(1) \o LE16(5) \o <<6>> \o <<1, 97>>

SkipBlock == <<30>> \o LE32(0)

UnknownBlock == <<5>> \o LE32(2) \o <<200, 201>>

EndBlock == <<0>> \o LE32(0)

ScBlocks ==
    {PolygonBlock(records) : records \in SeqsUpTo(ScRegionRecords, MaxScRegions)}
    \cup {TextureBlock, MatrixBlock, AnimationBlock, SkipBlock, UnknownBlock, EndBlock}

ScStreams(n) ==
    {ScHeaderBytes(c) \o ScExportBytes(e) \o Concat(bs) :
        c \in ScCounts, e \in ScExportCounts, bs \in SeqsUpTo(ScBlocks, n)}

ScInputs(max_blocks, max_cut_blocks) ==
    ScStreams(max_blocks)
    \cup {SubSeq(s, 1, k) : <<s, k>> \in
            {q \in ScStreams(max_cut_blocks) \X (0..80) : q[2] < Len(q[1])}}

(* The png files of png_dir for sheets 0 and 1: a 4 x 4 image, a 2 x 2     *)
(* image, a 2 x 4 image, no file, or a file image::open rejects.           *)
PngHi   == [exists |-> TRUE, readable |-> TRUE, width |-> 4, height |-> 4]
PngLo   == [exists |-> TRUE, readable |-> TRUE, width |-> 2, height |-> 2]
PngNarrow == [exists |-> TRUE, readable |-> TRUE, width |-> 2, height |-> 4]
PngNone == [exists |-> FALSE, readable |-> FALSE, width |-> 0, height |-> 0]
PngBad  == [exists |-> TRUE, readable |-> FALSE, width |-> 0, height |-> 0]

ScPngDirs ==
    {<<PngHi, PngHi>>, <<PngHi, PngLo>>, <<PngLo, PngHi>>, <<PngHi, PngNone>>,
     <<PngHi, PngBad>>, <<PngNarrow, PngLo>>}

InitSc ==
    /\ \E data \in ScInputs(MaxScBlocks, MaxScCutBlocks), pngs \in ScPngDirs : sc = ScEntry(data, pngs)
    /\ rd = NewReader(<<>>)
    /\ last = NoOp
    /\ eof_seek \in BOOLEAN
    /\ tex = IdleTex
    /\ adj = IdleAdj
    /\ reg = IdleReg
    /\ nm = IdleNm
    /\ csv = IdleCsv
    /\ geo = IdleGeo
    /\ ws = IdleWs
    /\ bb = IdleBb

ScStart ==
    /\ sc.pc = "header"
    /\ sc' = ScHeader(sc, sc.pngs)
    /\ UNCHANGED <<rd, last, eof_seek, tex, adj, reg, nm, csv, geo, ws, bb>>

ScReadExports ==
    /\ sc.pc = "exports"
    /\ sc' = ScExports(sc)
    /\ UNCHANGED <<rd, last, eof_seek, tex, adj, reg, nm, csv, geo, ws, bb>>

(* while stream.len() > 0 { .. }                                           *)
ScIterate ==
    /\ sc.pc = "blocks"
    /\ len(sc.stream) > 0
    /\ sc' = [ScBlock(sc) EXCEPT !.len_before = len(sc.stream), !.iterations = @ + 1]
    /\ UNCHANGED <<rd, last, eof_seek, tex, adj, reg, nm, csv, geo, ws, bb>>

(* The loop is left and write_shape is entered.                            *)
ScWriteShape ==
    /\ sc.pc = "blocks"
    /\ len(sc.stream) = 0
    /\ sc' = [sc EXCEPT !.pc = "write_shape"]
    /\ \E overflow_checks \in BOOLEAN : geo' = GeomEntry(sc.sprite_data, overflow_checks)
    /\ UNCHANGED <<rd, last, eof_seek, tex, adj, reg, nm, csv, ws, bb>>

NextSc ==
    \/ ScStart \/ ScReadExports \/ ScIterate \/ ScWriteShape
    \/ GeomRegion \/ GeomNextSprite \/ GeomFinish

SpecSc == InitSc /\ [][NextSc]_vars

(* The region slots the parser has filled: sprite x, slot y.               *)
ScSlots ==
    {q \in (1..Len(sc.sprite_data)) \X (1..MaxScRegions) :
        q[2] <= Len(sc.sprite_data[q[1]].regions)}

(* C13: if use_low_res is true at the end of parsing, every sheet point    *)
(* of every region is its divider-1 value divided by 2, whether the        *)
(* polygon block of the region came before or after the texture            *)
(* descriptor that set the flag.                                           *)
C13_LowResHalvesEverySheetPoint ==
    (sc.pc = "write_shape" /\ sc.use_low_res) =>
        \A q \in ScSlots :
            \A z \in 1..sc.sprite_data[q[1]].regions[q[2]].num_points :
                sc.sprite_data[q[1]].regions[q[2]].sheet_points[z]
                    = Point(sc.notes[q[1]][q[2]].full[z].x \div 2,
                            sc.notes[q[1]][q[2]].full[z].y \div 2)

(* C15: whenever the parser uses the sheet_id of a region to index the     *)
(* sheet table it is below total_textures, and so is the sheet_id of       *)
(* every region with points that is handed to the compositor.              *)
C15_SheetIdInRange ==
    /\ \A x \in 1..Len(sc.notes) : \A y \in 1..Len(sc.notes[x]) :
          ~sc.notes[x][y].index_panic
    /\ sc.pc = "write_shape" =>
          \A q \in ScSlots :
              sc.sprite_data[q[1]].regions[q[2]].num_points > 0
                  => sc.sprite_data[q[1]].regions[q[2]].sheet_id < sc.total_textures

(* C16: a region slot whose sub-tag byte is not 0x16 consumes that one     *)
(* byte and keeps its sentinel, and the geometry pass handles it without   *)
(* a panic.                                                                *)
C16_SkippedRegionIsHarmless ==
    \A x \in 1..Len(sc.notes) : \A y \in 1..Len(sc.notes[x]) :
        (/\ sc.notes[x][y].len_before >= 1
         /\ Len(sc.notes[x][y].sub_tag) = 1
         /\ sc.notes[x][y].sub_tag # <<22>>) =>
            /\ sc.notes[x][y].consumed = 1
            /\ y <= Len(sc.sprite_data[x].regions)
                  => sc.sprite_data[x].regions[y] = SentinelRegion
            /\ ~(geo.pc = "panic" /\ geo.x = x /\ geo.y = y)

(* C18: every pass of the tagged-block loop strictly decreases len(), the  *)
(* loop is left once len() is 0, and the parse and the geometry pass that  *)
(* follows complete without a panic or an index out of range, also for     *)
(* streams cut at an arbitrary offset.                                     *)
C18_BlockLoopTerminatesCleanly ==
    /\ sc.iterations > 0 => len(sc.stream) < sc.len_before
    /\ sc.pc = "write_shape" => len(sc.stream) = 0
    /\ sc.pc # "panic"
    /\ geo.pc # "panic"

(* The step is one pass of the block loop that handled a texture           *)
(* descriptor (tag 0x01 or 0x18) of a loaded sheet.                        *)
TextureStep ==
    /\ sc.pc = "blocks"
    /\ sc'.pc = "blocks"
    /\ sc'.iterations = sc.iterations + 1
    /\ sc'.tag \in {<<1>>, <<24>>}

(* The png of the descriptor's sheet differs from the declared size in     *)
(* both dimensions.                                                        *)
BothDiffer ==
    /\ sc.sheet_image[sc.offset_sheet + 1].width # sc'.sheet_data[sc.offset_sheet + 1].x
    /\ sc.sheet_image[sc.offset_sheet + 1].height # sc'.sheet_data[sc.offset_sheet + 1].y

(* C22: use_low_res starts false; a texture descriptor block sets it to    *)
(* true exactly when the loaded png differs from the declared size in      *)
(* width and in height; a descriptor where at most one dimension differs   *)
(* and every other block leave it unchanged; once true it stays true.      *)
C22_LowResFlag ==
    [][/\ sc.pc \in {"header", "exports"} => (~sc.use_low_res /\ ~sc'.use_low_res)
       /\ (sc.pc = "blocks" /\ TextureStep) =>
              sc'.use_low_res = (sc.use_low_res \/ BothDiffer)
       /\ (sc.pc = "blocks" /\ ~TextureStep) => sc'.use_low_res = sc.use_low_res
       /\ sc.use_low_res => sc'.use_low_res]_vars

(* Two descriptors have been handled: the first png differs in width       *)
(* only and left the flag false, the second differs in both and set it.    *)
C22_Witness ==
    /\ sc.pc = "blocks"
    /\ sc.offset_sheet = 2
    /\ sc.iterations = 2
    /\ sc.sheet_image[1].width # sc.sheet_data[1].x
    /\ sc.sheet_image[1].height = sc.sheet_data[1].y
    /\ sc.sheet_image[2].width # sc.sheet_data[2].x
    /\ sc.sheet_image[2].height # sc.sheet_data[2].y
    /\ sc.use_low_res

----------------------------------------------------------------------------
(* The bounding box of a mask (src/extractors/sc.rs, get_bbox).            *)

(* A u32 below 2^31 as an integer.                                         *)
U32Val(a) == a.hi * Two16 + a.lo

(* let mut bounds = (-1, -1, -1, -1); let mut additions = (1, 1, 1, 1);    *)
BboxStart == [bounds |-> <<-1, -1, -1, -1>>, additions |-> <<1, 1, 1, 1>>]

(* if bounds.k > pix || bounds.k < 0 { .. } for the two minima.            *)
BboxLow(b, k, pix) ==
    IF b.bounds[k] > pix \/ b.bounds[k] < 0
    THEN [bounds |-> [b.bounds EXCEPT ![k] = pix],
          additions |-> IF b.bounds[k] < pix /\ b.bounds[k] < 0
                        THEN [b.additions EXCEPT ![k] = 0] ELSE b.additions]
    ELSE b

(* if bounds.k < pix || bounds.k < 0 { .. } for the two maxima.            *)
BboxHigh(b, k, pix) ==
    IF b.bounds[k] < pix \/ b.bounds[k] < 0
    THEN [bounds |-> [b.bounds EXCEPT ![k] = pix],
          additions |-> IF b.bounds[k] > pix /\ b.bounds[k] < 0
                        THEN [b.additions EXCEPT ![k] = 0] ELSE b.additions]
    ELSE b

(* The body of the loop for one pixel (pix_x, pix_y, color).               *)
BboxPixel(b, pix_x, pix_y, color) ==
    IF color # 0
    THEN BboxHigh(BboxLow(BboxHigh(BboxLow(b, 1, pix_x), 3, pix_x), 2, pix_y), 4, pix_y)
    ELSE b

(* image.pixels(): row by row, x fastest.                                  *)
RECURSIVE BboxLoop(_, _, _)
BboxLoop(image, k, b) ==
    IF k >= image.width * image.height THEN b
    ELSE BboxLoop(image, k + 1,
                  BboxPixel(b, k % image.width, k \div image.width,
                            image.rows[(k \div image.width) + 1][(k % image.width) + 1]))

(* bounds.k as u32 + additions.k for the four components.                  *)
BboxSums(b) == [k \in 1..4 |-> U32Add(I32AsU32(b.bounds[k]), U32(b.additions[k]))]

(* The tuple returned; an overflowing sum panics in a build with overflow  *)
(* checks and wraps otherwise.                                             *)
BboxResult(sums, overflow_checks) ==
    [overflow |-> \E k \in 1..4 : sums[k].overflow,
     panic |-> overflow_checks /\ \E k \in 1..4 : sums[k].overflow,
     rect |-> [k \in 1..4 |-> sums[k].val]]

get_bbox(image, overflow_checks) ==
    BboxResult(BboxSums(BboxLoop(image, 0, BboxStart)), overflow_checks)

----------------------------------------------------------------------------
(* SpecBbox: get_bbox on every mask of up to MaxMaskDim x MaxMaskDim       *)
(* pixels, each pixel 0 or 255, in a build with or without overflow        *)
(* checks.                                                                 *)

MaxMaskDim == 3

MaskColors == {0, 255}

Masks(max_dim) ==
    UNION {{[width |-> q[1], height |-> q[2], rows |-> rows] :
                rows \in [1..q[2] -> [1..q[1] -> MaskColors]]} :
           q \in (0..max_dim) \X (0..max_dim)}

InitBbox ==
    /\ \E image \in Masks(MaxMaskDim), overflow_checks \in BOOLEAN :
          bb = [pc |-> "call", image |-> image, overflow_checks |-> overflow_checks,
                result |-> [overflow |-> FALSE, panic |-> FALSE,
                            rect |-> [k \in 1..4 |-> U32(0)]]]
    /\ rd = NewReader(<<>>)
    /\ last = NoOp
    /\ eof_seek = FALSE
    /\ tex = IdleTex
    /\ adj = IdleAdj
    /\ reg = IdleReg
    /\ nm = IdleNm
    /\ csv = IdleCsv
    /\ geo = IdleGeo
    /\ sc = IdleSc
    /\ ws = IdleWs

DoGetBbox ==
    /\ bb.pc = "call"
    /\ bb' = [bb EXCEPT !.pc = "done", !.result = get_bbox(bb.image, bb.overflow_checks)]
    /\ UNCHANGED <<rd, last, eof_seek, tex, adj, reg, nm, csv, geo, sc, ws>>

NextBbox == DoGetBbox

SpecBbox == InitBbox /\ [][NextBbox]_vars

(* The nonzero pixels of the mask, as <<x, y>>.                            *)
Nonzero ==
    {q \in (0..bb.image.width - 1) \X (0..bb.image.height - 1) :
        bb.image.rows[q[2] + 1][q[1] + 1] # 0}

(* C23: for a mask with a nonzero pixel get_bbox returns (minX, minY,      *)
(* maxX + 1, maxY + 1): every nonzero pixel lies inside the half-open      *)
(* rectangle, each side touches a nonzero pixel and the crop size is at    *)
(* least 1 x 1; for a mask with no nonzero pixel it returns without        *)
(* arithmetic overflow.                                                    *)
C23_HalfOpenBoundingBox ==
    bb.pc = "done" =>
        /\ ~bb.result.overflow
        /\ ~bb.result.panic
        /\ Nonzero # {} =>
              LET b == [k \in 1..4 |-> U32Val(bb.result.rect[k])]
              IN  /\ \A q \in Nonzero : b[1] <= q[1] /\ q[1] < b[3] /\ b[2] <= q[2] /\ q[2] < b[4]
                  /\ \E q \in Nonzero : q[1] = b[1]
                  /\ \E q \in Nonzero : q[2] = b[2]
                  /\ \E q \in Nonzero : q[1] = b[3] - 1
                  /\ \E q \in Nonzero : q[2] = b[4] - 1
                  /\ b[3] - b[1] >= 1
                  /\ b[4] - b[2] >= 1

----------------------------------------------------------------------------
(* The composite phase (src/extractors/sc.rs, write_shape, the parallel    *)
(* section).  Images are rows of pixels; the work of the image library on  *)
(* a region (mask, bounding box, crop, overlay, flip) is taken as: the     *)
(* pixels bounds.from .. bounds.from + bounds.len - 1 of the sheet,        *)
(* reversed when the region is mirrored.                                   *)

(* The owner of an unlocked Mutex; worker y of sprite x is <<x, y>>, the   *)
(* closure of sprite x itself <<x, 0>>.                                    *)
NoOwner == <<0, 0>>

MutexAlwaysFree(owner) == TRUE

(* lock() returns only when no other thread holds the Mutex.               *)
MutexFree(owner) == owner = NoOwner

Reverse(row) == [k \in 1..Len(row) |-> row[Len(row) + 1 - k]]

(* if polygon[0] == polygon[polygon.len() - 1] { return; }                 *)
DegeneratePolygon(region) ==
    region.sheet_points[1] = region.sheet_points[Len(region.sheet_points)]

(* The crop of the sheet under the mask, flipped if mirroring == 1.        *)
RegionImage(sheet, region) ==
    IF region.mirroring = 1
    THEN Reverse(SubSeq(sheet, region.bounds.from, region.bounds.from + region.bounds.len - 1))
    ELSE SubSeq(sheet, region.bounds.from, region.bounds.from + region.bounds.len - 1)

(* copy_from is an error, and copies nothing, when the image does not fit  *)
(* the canvas at the paste position.                                       *)
Fits(canvas, image, paste_left) == paste_left + Len(image) <= Len(canvas)

(* One sprite closure at its start, with its region workers not yet        *)
(* spawned.                                                                *)
NewSpriteTask(regions) ==
    [pc |-> "new", out_image |-> <<>>, lock |-> NoOwner, file |-> <<>>,
     workers |-> [y \in 1..Len(regions) |-> [pc |-> "unborn", image |-> <<>>, k |-> 0]]]

(* The state at the start of the parallel section of one call.             *)
WorkersEntry(w) ==
    [w EXCEPT !.pc = "composite",
              !.sheet_lock = NoOwner,
              !.sprites = [x \in 1..Len(w.regions) |-> NewSpriteTask(w.regions[x])],
              !.result = "Ok",
              !.last_write = [sprite |-> 0, canvas |-> 0, held |-> TRUE]]

----------------------------------------------------------------------------
(* SpecWorkers: the parallel section of write_shape, run twice on the      *)
(* same input (the second call starts when the first has returned).  One   *)
(* closure per sprite, one worker per region; every step between two       *)
(* points where another thread can be observed is an action, and the       *)
(* copy of copy_from is one action per pixel.  The file has up to          *)
(* MaxWsSprites sprites with up to MaxWsRegions regions in all.            *)

MaxWsSprites == 2
MaxWsRegions == 2

WsCanvasWidth == 3

WsSheets == <<<<1, 2, 3>>>>

(* Regions as the geometry pass leaves them: two that overlap on the       *)
(* canvas, one with first == last vertex, one that does not fit.           *)
WsRegions ==
    {[sheet_points |-> <<Point(0, 0), Point(2, 0)>>, sheet_id |-> 0,
      bounds |-> [from |-> 1, len |-> 2], mirroring |-> 0, paste_left |-> 0],
     [sheet_points |-> <<Point(1, 0), Point(3, 0)>>, sheet_id |-> 0,
      bounds |-> [from |-> 2, len |-> 2], mirroring |-> 1, paste_left |-> 1],
     [sheet_points |-> <<Point(1, 1), Point(1, 1)>>, sheet_id |-> 0,
      bounds |-> [from |-> 1, len |-> 1], mirroring |-> 0, paste_left |-> 0],
     [sheet_points |-> <<Point(0, 0), Point(3, 0)>>, sheet_id |-> 0,
      bounds |-> [from |-> 1, len |-> 3], mirroring |-> 0, paste_left |-> 1]}

RECURSIVE TotalLen(_)
TotalLen(seqs) == IF seqs = <<>> THEN 0 ELSE Len(Head(seqs)) + TotalLen(Tail(seqs))

WsSpriteData(max_sprites, max_regions) ==
    {sd \in SeqsUpTo(SeqsUpTo(WsRegions, max_regions), max_sprites) :
        Len(sd) >= 1 /\ TotalLen(sd) <= max_regions}

InitWorkers ==
    /\ \E regions \in WsSpriteData(MaxWsSprites, MaxWsRegions), fs_ok \in BOOLEAN :
          ws = WorkersEntry([pc |-> "composite", run |-> 1, regions |-> regions,
                             sheet_image |-> WsSheets, fs_ok |-> fs_ok,
                             first |-> <<>>, sheet_lock |-> NoOwner, sprites |-> <<>>,
                             result |-> "Ok",
                             last_write |-> [sprite |-> 0, canvas |-> 0, held |-> TRUE]])
    /\ rd = NewReader(<<>>)
    /\ last = NoOp
    /\ eof_seek = FALSE
    /\ tex = IdleTex
    /\ adj = IdleAdj
    /\ reg = IdleReg
    /\ nm = IdleNm
    /\ csv = IdleCsv
    /\ geo = IdleGeo
    /\ sc = IdleSc
    /\ bb = IdleBb

(* The closure of sprite x starts: a new canvas behind a new Mutex, and    *)
(* the inner parallel loop spawns the region workers.                      *)
SpriteStart ==
    /\ ws.pc = "composite"
    /\ \E x \in 1..Len(ws.sprites) :
          /\ ws.sprites[x].pc = "new"
          /\ ws' = [ws EXCEPT
                      !.sprites[x].pc = "regions",
                      !.sprites[x].out_image = Zeros(WsCanvasWidth),
                      !.sprites[x].workers =
                          [y \in 1..Len(ws.regions[x]) |-> [pc |-> "polygon", image |-> <<>>, k |-> 0]]]
    /\ UNCHANGED <<rd, last, eof_seek, tex, adj, reg, nm, csv, geo, sc, bb>>

(* try_for_each: once a closure has returned Err, closures not yet         *)
(* started may be dropped.                                                 *)
SpriteSkip ==
    /\ ws.pc = "composite"
    /\ ws.result = "IoError"
    /\ \E x \in 1..Len(ws.sprites) :
          /\ ws.sprites[x].pc = "new"
          /\ ws' = [ws EXCEPT !.sprites[x].pc = "skipped"]
    /\ UNCHANGED <<rd, last, eof_seek, tex, adj, reg, nm, csv, geo, sc, bb>>

(* The polygon of the region and the degenerate guard.                     *)
WorkerPolygon ==
    /\ ws.pc = "composite"
    /\ \E x \in 1..Len(ws.sprites) : \E y \in 1..Len(ws.sprites[x].workers) :
          /\ ws.sprites[x].workers[y].pc = "polygon"
          /\ ws' = [ws EXCEPT !.sprites[x].workers[y].pc =
                      IF DegeneratePolygon(ws.regions[x][y]) THEN "done" ELSE "mask"]
    /\ UNCHANGED <<rd, last, eof_seek, tex, adj, reg, nm, csv, geo, sc, bb>>

(* Mask and bounding box, then sheet_image.lock().                         *)
WorkerLockSheet ==
    /\ ws.pc = "composite"
    /\ \E x \in 1..Len(ws.sprites) : \E y \in 1..Len(ws.sprites[x].workers) :
          /\ ws.sprites[x].workers[y].pc = "mask"
          /\ MutexFree(ws.sheet_lock)
          /\ ws' = [ws EXCEPT !.sheet_lock = <<x, y>>,
                              !.sprites[x].workers[y].pc = "crop"]
    /\ UNCHANGED <<rd, last, eof_seek, tex, adj, reg, nm, csv, geo, sc, bb>>

(* ..unwrap()[sheet_id].crop(..): the copy, and the guard is dropped;      *)
(* then overlay, flip and rotation on the worker's own images.             *)
WorkerCrop ==
    /\ ws.pc = "composite"
    /\ \E x \in 1..Len(ws.sprites) : \E y \in 1..Len(ws.sprites[x].workers) :
          /\ ws.sprites[x].workers[y].pc = "crop"
          /\ ws' = [ws EXCEPT
                      !.sheet_lock = NoOwner,
                      !.sprites[x].workers[y].pc = "paste",
                      !.sprites[x].workers[y].image =
                          RegionImage(ws.sheet_image[ws.regions[x][y].sheet_id + 1],
                                      ws.regions[x][y])]
    /\ UNCHANGED <<rd, last, eof_seek, tex, adj, reg, nm, csv, geo, sc, bb>>

(* out_image.lock(): the worker waits until the canvas Mutex is free;      *)
(* copy_from then checks that the image fits.                              *)
WorkerLockCanvas ==
    /\ ws.pc = "composite"
    /\ \E x \in 1..Len(ws.sprites) : \E y \in 1..Len(ws.sprites[x].workers) :
          /\ ws.sprites[x].workers[y].pc = "paste"
          /\ MutexFree(ws.sprites[x].lock)
          /\ ws' = [ws EXCEPT
                      !.sprites[x].lock = <<x, y>>,
                      !.sprites[x].workers[y].pc =
                          IF Fits(ws.sprites[x].out_image, ws.sprites[x].workers[y].image,
                                  ws.regions[x][y].paste_left)
                          THEN "copy" ELSE "error"]
    /\ UNCHANGED <<rd, last, eof_seek, tex, adj, reg, nm, csv, geo, sc, bb>>

(* copy_from, one pixel: a raw copy onto the canvas.                       *)
WorkerCopy ==
    /\ ws.pc = "composite"
    /\ \E x \in 1..Len(ws.sprites) : \E y \in 1..Len(ws.sprites[x].workers) :
          /\ ws.sprites[x].workers[y].pc = "copy"
          /\ ws.sprites[x].workers[y].k < Len(ws.sprites[x].workers[y].image)
          /\ ws' = [ws EXCEPT
                      !.sprites[x].out_image[ws.regions[x][y].paste_left
                                             + ws.sprites[x].workers[y].k + 1] =
                          ws.sprites[x].workers[y].image[ws.sprites[x].workers[y].k + 1],
                      !.sprites[x].workers[y].k = @ + 1,
                      !.last_write = [sprite |-> x, canvas |-> x,
                                      held |-> ws.sprites[x].lock = <<x, y>>]]
    /\ UNCHANGED <<rd, last, eof_seek, tex, adj, reg, nm, csv, geo, sc, bb>>

(* The end of the condition: the guard, a temporary of it, is dropped      *)
(* (before the message, if copy_from was an error); the worker is done.    *)
WorkerUnlock ==
    /\ ws.pc = "composite"
    /\ \E x \in 1..Len(ws.sprites) : \E y \in 1..Len(ws.sprites[x].workers) :
          /\ \/ ws.sprites[x].workers[y].pc = "error"
             \/ /\ ws.sprites[x].workers[y].pc = "copy"
                /\ ws.sprites[x].workers[y].k = Len(ws.sprites[x].workers[y].image)
          /\ ws' = [ws EXCEPT !.sprites[x].lock = NoOwner,
                              !.sprites[x].workers[y].pc = "done"]
    /\ UNCHANGED <<rd, last, eof_seek, tex, adj, reg, nm, csv, geo, sc, bb>>

WorkersNotAwaited(workers) == TRUE

(* .for_each(|y| ..) returns when the closure has run for every region.    *)
WorkersJoined(workers) == \A y \in 1..Len(workers) : workers[y].pc = "done"

(* After the inner loop has joined: out_image.lock() for the save.         *)
SpriteLockCanvas ==
    /\ ws.pc = "composite"
    /\ \E x \in 1..Len(ws.sprites) :
          /\ ws.sprites[x].pc = "regions"
          /\ WorkersJoined(ws.sprites[x].workers)
          /\ MutexFree(ws.sprites[x].lock)
          /\ ws' = [ws EXCEPT !.sprites[x].lock = <<x, 0>>, !.sprites[x].pc = "saving"]
    /\ UNCHANGED <<rd, last, eof_seek, tex, adj, reg, nm, csv, geo, sc, bb>>

(* save(save_path): the file, or Err(IoError) from the closure.            *)
SpriteSave ==
    /\ ws.pc = "composite"
    /\ \E x \in 1..Len(ws.sprites) :
          /\ ws.sprites[x].pc = "saving"
          /\ ws' = [ws EXCEPT
                      !.sprites[x].lock = NoOwner,
                      !.sprites[x].pc = "done",
                      !.sprites[x].file = IF ws.fs_ok THEN ws.sprites[x].out_image ELSE <<>>,
                      !.result = IF ws.fs_ok THEN @ ELSE "IoError"]
    /\ UNCHANGED <<rd, last, eof_seek, tex, adj, reg, nm, csv, geo, sc, bb>>

AllSpritesDone ==
    \A x \in 1..Len(ws.sprites) : ws.sprites[x].pc \in {"done", "skipped"}

(* The first call has returned; process_sc is called again on the same     *)
(* bytes and sheets.                                                       *)
SecondCall ==
    /\ ws.pc = "composite"
    /\ ws.run = 1
    /\ AllSpritesDone
    /\ ws' = WorkersEntry([ws EXCEPT !.run = 2,
                 !.first = [x \in 1..Len(ws.sprites) |-> ws.sprites[x].file]])
    /\ UNCHANGED <<rd, last, eof_seek, tex, adj, reg, nm, csv, geo, sc, bb>>

WorkersReturn ==
    /\ ws.pc = "composite"
    /\ ws.run = 2
    /\ AllSpritesDone
    /\ ws' = [ws EXCEPT !.pc = "done"]
    /\ UNCHANGED <<rd, last, eof_seek, tex, adj, reg, nm, csv, geo, sc, bb>>

NextWorkers ==
    \/ SpriteStart \/ SpriteSkip \/ WorkerPolygon \/ WorkerLockSheet \/ WorkerCrop
    \/ WorkerLockCanvas \/ WorkerCopy \/ WorkerUnlock \/ SpriteLockCanvas \/ SpriteSave
    \/ SecondCall \/ WorkersReturn

SpecWorkers == InitWorkers /\ [][NextWorkers]_vars

(* C14: two calls on the same bytes and sheets leave the same canvas for   *)
(* every sprite, under every interleaving of the region workers, also      *)
(* when two regions paste onto overlapping canvas pixels.                  *)
C14_SameCanvasesTwice ==
    (ws.pc = "done" /\ ws.fs_ok) =>
        \A x \in 1..Len(ws.sprites) : ws.sprites[x].file = ws.first[x]

(* The threads that are inside a statement that holds the canvas Mutex of  *)
(* sprite x: workers in copy_from, the closure in save.                    *)
CanvasUsers(x) ==
    {<<x, y>> : y \in {y \in 1..Len(ws.sprites[x].workers) :
                        ws.sprites[x].workers[y].pc \in {"copy", "error"}}}
    \cup (IF ws.sprites[x].pc = "saving" THEN {<<x, 0>>} ELSE {})

(* C20: every write to a sprite's canvas and its save happen while the     *)
(* thread holds that canvas's Mutex, so no two threads mutate one canvas   *)
(* at the same time; a worker writes the canvas of its own sprite only;    *)
(* the sheet-image vector is not modified during the composite phase.      *)
C20_CanvasWritesUnderMutex ==
    ws.pc = "composite" =>
        /\ \A x \in 1..Len(ws.sprites) :
              /\ Cardinality(CanvasUsers(x)) <= 1
              /\ \A u \in CanvasUsers(x) : ws.sprites[x].lock = u
        /\ ws.last_write.held
        /\ ws.last_write.canvas = ws.last_write.sprite
        /\ ws.sheet_image = WsSheets

(* One worker of a sprite is inside copy_from with one pixel copied and    *)
(* holds the Mutex while the other worker of the sprite waits for it.      *)
C20_Witness ==
    /\ ws.pc = "composite"
    /\ Len(ws.sprites) = 1
    /\ Len(ws.sprites[1].workers) = 2
    /\ ws.sprites[1].workers[1].pc = "copy"
    /\ ws.sprites[1].workers[1].k = 1
    /\ ws.sprites[1].lock = <<1, 1>>
    /\ ws.sprites[1].workers[2].pc = "paste"
    /\ ws.last_write.sprite = 1

(* The step takes worker y of sprite x into or out of a failed copy_from.  *)
FailedPasteStep(x, y) ==
    /\ y <= Len(ws.sprites[x].workers)
    /\ x <= Len(ws'.sprites)
    /\ y <= Len(ws'.sprites[x].workers)
    /\ (ws.sprites[x].workers[y].pc = "error") # (ws'.sprites[x].workers[y].pc = "error")

(* The save of sprite x has begun or is over.                              *)
SaveBegun(x) == ws.sprites[x].pc \in {"saving", "done"}

(* C27: the save of a sprite's canvas happens only after every region      *)
(* worker of the sprite has finished (pasted, returned on a degenerate     *)
(* polygon, or logged a failed paste), under every interleaving; a failed  *)
(* paste leaves the canvas unchanged and does not fail the sprite; a       *)
(* failed save makes the call return IoError.                              *)
C27_SaveAfterWorkers ==
    /\ [](ws.pc \in {"composite", "done"} =>
            \A x \in 1..Len(ws.sprites) :
                /\ SaveBegun(x) =>
                      \A y \in 1..Len(ws.sprites[x].workers) :
                          ws.sprites[x].workers[y].pc = "done"
                /\ (ws.sprites[x].pc = "done" /\ ws.fs_ok) =>
                      (ws.sprites[x].file = ws.sprites[x].out_image /\ ws.result = "Ok")
                /\ (ws.sprites[x].pc = "done" /\ ~ws.fs_ok) => ws.result = "IoError")
    /\ [][ws.pc = "composite" =>
            \A x \in 1..Len(ws.sprites) : \A y \in 1..MaxWsRegions :
                FailedPasteStep(x, y) =>
                    /\ ws'.sprites[x].out_image = ws.sprites[x].out_image
                    /\ ws'.result = ws.result
                    /\ ws'.sprites[x].pc = ws.sprites[x].pc]_vars

(* A sprite of two regions is saved: the first region was pasted, the      *)
(* second did not fit and was only logged; the file holds the first.       *)
C27_Witness ==
    /\ ws.pc = "composite"
    /\ ws.fs_ok
    /\ Len(ws.sprites) = 1
    /\ ws.sprites[1].pc = "done"
    /\ Len(ws.sprites[1].workers) = 2
    /\ ws.sprites[1].workers[1].k = 2
    /\ ~Fits(ws.sprites[1].out_image, ws.sprites[1].workers[2].image,
             ws.regions[1][2].paste_left)
    /\ ws.sprites[1].file = <<1, 2, 0>>
    /\ ws.result = "Ok"

====
